---- MODULE Spec2Model ----
(***************************************************************************)
(* doc2slides backend: the Google Docs content fetcher (services/docs.ts), *)
(* the summarizer with its preview handler (services/claude.ts,            *)
(* routes/generate.ts), and the generate handler with the presentation     *)
(* builder (routes/generate.ts, services/slides.ts), as state machines.    *)
(*                                                                         *)
(* Strings are sequences of atoms: an atom is one character or one literal *)
(* chunk of text that the code only ever treats as a whole.                *)
(***************************************************************************)
EXTENDS Integers, Sequences, FiniteSets, TLC

VARIABLES
    fPc,        \* position of fetchGoogleDocsContent: idle, primary, metadata, export, public, done
    fUrl,       \* the url argument
    fToken,     \* the accessToken argument
    fDocId,     \* local documentId
    fTitle,     \* local title of fetchViaDriveExport
    fCalls,     \* the fetch() calls issued so far, in order
    fResps,     \* the HTTP statuses received so far, in order
    fResult,    \* what the promise settled to
    apiKey,     \* process.env.GEMINI_API_KEY
    genAI,      \* the module-level lazily created LLM client
    sPc,        \* position of summarizeDocument: idle, llm (awaiting generateContent), done
    sCaller,    \* who called summarizeDocument: direct, preview
    sParams,    \* the params argument
    sTrace,     \* prompt-building and LLM-client operations performed so far, in order
    sPrompt,    \* the prompt handed to generateContent
    sText,      \* the text of the model's response
    sResult,    \* what summarizeDocument's promise settled to
    hReq,       \* the request body the handler received
    hResp,      \* the HTTP response the handler sent
    gPc,        \* position of the generate handler: idle, summarize, create, batch, done
    gReq,       \* the request body the generate handler received
    gResp,      \* the HTTP response the generate handler sent
    pbParams,   \* the params argument of createPresentation
    pbCalls,    \* the Slides API calls issued so far, in order
    pbData,     \* presentation.data as presentations.create returned it
    pbResult,   \* what createPresentation's promise settled to
    iPc,        \* position of the preview handler with import mode: idle, fetch, summarize, done
    iReq,       \* the request body that handler received
    iResp,      \* the HTTP response that handler sent
    cIn,        \* the argument of a call of a pure function
    cOut,       \* what the call returned
    cDone,      \* TRUE once the call has returned
    aPc,        \* the frontend App: unmounted, restoring (restoreAuth awaits validateToken), ready
    aStore,     \* localStorage: the three doc2slides_ keys
    aNow,       \* Date.now(), in milliseconds
    aAccessToken,   \* the accessToken state, <<>> for null
    aUser,      \* the user state, "none" for null
    aLogin,     \* the token response whose validation login.onSuccess awaits
    aDocumentContent,   \* the documentContent field of the form
    aLoading,   \* the loading state
    aResult,    \* the result state: the previewed structure
    aError,     \* the error state, "" for null
    aExporting, \* the exporting state
    aExportResult,  \* the exportResult state
    aPreviewReq,    \* the POST /api/generate/preview in flight
    aExportReq, \* the POST /api/generate in flight
    aCreated,   \* the structure the backend last passed to createPresentation
    aHist,      \* history: what mount found, the expiry fixed at sign-in, which preview was exported
    qReqs       \* the calls of summarizeDocument by requests handled side by side

fvars == <<fPc, fUrl, fToken, fDocId, fTitle, fCalls, fResps, fResult>>

svars == <<apiKey, genAI, sPc, sCaller, sParams, sTrace, sPrompt, sText, sResult, hReq, hResp>>

gvars == <<gPc, gReq, gResp, pbParams, pbCalls, pbData, pbResult>>

ivars == <<iPc, iReq, iResp>>

cvars == <<cIn, cOut, cDone>>

avars == <<aPc, aStore, aNow, aAccessToken, aUser, aLogin, aDocumentContent, aLoading, aResult,
           aError, aExporting, aExportResult, aPreviewReq, aExportReq, aCreated, aHist>>

\* the components beside the backend services and handlers
qvars == <<qReqs>>

ovars == <<cvars, avars, qvars>>

vars == <<fvars, svars, gvars, ivars, ovars>>

----------------------------------------------------------------------------
(* Bounds *)

MaxIdLen == 2
MaxElems == 2
MaxSlideCount == 11
MaxModelSlides == 2
MaxNow == 180000
MaxSubmits == 2

----------------------------------------------------------------------------
(* Strings *)

WsChars == {" ", "\n"}

RECURSIVE TrimStart(_)
TrimStart(s) ==
    IF s = <<>> THEN <<>>
    ELSE IF Head(s) \in WsChars THEN TrimStart(Tail(s)) ELSE s

RECURSIVE TrimEnd(_)
TrimEnd(s) ==
    IF s = <<>> THEN <<>>
    ELSE IF s[Len(s)] \in WsChars THEN TrimEnd(SubSeq(s, 1, Len(s) - 1)) ELSE s

\* String.prototype.trim
Trim(s) == TrimEnd(TrimStart(s))

SeqsUpTo(S, n) == UNION {[1..k -> S] : k \in 0..n}

\* an optional JSON field: absent, or present with value v
Absent == [has |-> FALSE, v |-> <<>>]
Some(v) == [has |-> TRUE, v |-> v]

\* JS truthiness of an optional string field
Truthy(f) == f.has /\ f.v # <<>>

UntitledDocument == <<"Untitled Document">>
ImportedDocument == <<"Imported Document">>

----------------------------------------------------------------------------
(* URLs *)

DocsHost == <<"docs.google.com">>
Hosts == {DocsHost, <<"example.com">>, <<"not", "docs.google.com">>}
DocumentPath == "/document/d/"
ProductPaths == {DocumentPath, "/spreadsheets/d/", "/presentation/d/"}
IdChars == {"A", "_"}
Ids == SeqsUpTo(IdChars, MaxIdLen)
Suffixes == {<<>>, <<"/edit">>}
Queries == {<<>>, <<"?usp=sharing">>}
\* a query string that quotes the address of a document
QuotingQuery == <<"?ref=", "docs.google.com", "/document/d/", "A">>

Urls ==
    [host : Hosts, path : ProductPaths, id : Ids, suffix : Suffixes, query : Queries]
    \cup [host : Hosts, path : ProductPaths, id : {<<"_">>}, suffix : {<<"/edit">>},
          query : {QuotingQuery}]

\* the text of a URL, as the string the code receives
UrlText(u) == <<"https://">> \o u.host \o <<u.path>> \o u.id \o u.suffix \o u.query

\* positions where /docs\.google\.com\/document\/d\/([a-zA-Z0-9_-]+)/ matches
MatchAt(s, i) ==
    /\ i + 2 <= Len(s)
    /\ s[i] = "docs.google.com"
    /\ s[i + 1] = DocumentPath
    /\ s[i + 2] \in IdChars

RECURSIVE IdRun(_, _)
IdRun(s, i) ==
    IF i <= Len(s) /\ s[i] \in IdChars THEN <<s[i]>> \o IdRun(s, i + 1) ELSE <<>>

NoId == <<>>

\* extractDocumentId: the captured id of the leftmost match, NoId when it throws
extractDocumentId(s) ==
    LET hits == {i \in 1..Len(s) : MatchAt(s, i)}
    IN  IF hits = {} THEN NoId
        ELSE LET first == CHOOSE i \in hits : \A j \in hits : i <= j
             IN  IdRun(s, first + 2)

----------------------------------------------------------------------------
(* Docs API documents *)

\* response texts: empty, blank, plain, padded on both sides, with inner whitespace
Texts == {<<>>, <<" ">>, <<"a">>, <<" ", "a", "\n">>, <<"a", " ", "a">>}

\* a paragraph element: textRun absent, textRun without content, or with content
TextElements == {[textRun |-> FALSE, content |-> Absent],
                 [textRun |-> TRUE, content |-> Absent]}
                \cup {[textRun |-> TRUE, content |-> Some(t)] : t \in {<<>>, <<"a", " ">>, <<" ", "a">>}}

\* a structural element: no paragraph, a paragraph without elements, or with elements
Paragraphs == {[paragraph |-> FALSE, elements |-> Absent],
               [paragraph |-> TRUE, elements |-> Absent]}
              \cup {[paragraph |-> TRUE, elements |-> Some(es)] : es \in SeqsUpTo(TextElements, MaxElems)}

DocTitles == {Absent, Some(<<>>), Some(<<"T">>)}

Documents ==
    {[title |-> t, body |-> FALSE, content |-> Absent] : t \in DocTitles}
    \cup {[title |-> t, body |-> TRUE, content |-> Absent] : t \in DocTitles}
    \cup {[title |-> t, body |-> TRUE, content |-> Some(<<p>>)] : t \in DocTitles, p \in Paragraphs}
    \cup {[title |-> Some(<<"T">>), body |-> TRUE, content |-> Some(<<p, p>>)] : p \in Paragraphs}

RECURSIVE ElementsText(_)
ElementsText(es) ==
    IF es = <<>> THEN <<>>
    ELSE (IF Head(es).textRun /\ Truthy(Head(es).content) THEN Head(es).content.v ELSE <<>>)
         \o ElementsText(Tail(es))

RECURSIVE ContentText(_)
ContentText(c) ==
    IF c = <<>> THEN <<>>
    ELSE (IF Head(c).paragraph /\ Head(c).elements.has
          THEN ElementsText(Head(c).elements.v) ELSE <<>>)
         \o ContentText(Tail(c))

\* mutant: the text is returned untrimmed
extractTextUntrimmed(d) ==
    IF d.body /\ d.content.has THEN ContentText(d.content.v) ELSE <<>>

extractTextFromDocument(d) ==
    LET content == IF d.body /\ d.content.has THEN d.content.v ELSE <<>>
    IN  Trim(ContentText(content))

----------------------------------------------------------------------------
(* fetchGoogleDocsContent *)

Tokens == {"tokA", "tokB"}
NoAuth == "none"

Statuses == {200, 401, 403, 404, 500}

\* Response.ok
Ok(status) == status \in 200..299

Names == {Absent, Some(<<>>), Some(<<"N">>)}

NoResult == [kind |-> "pending", code |-> "", httpStatus |-> 0, title |-> <<>>, content |-> <<>>]
DocsError(code, httpStatus) ==
    [kind |-> "DocsError", code |-> code, httpStatus |-> httpStatus, title |-> <<>>, content |-> <<>>]
Resolved(title, content) ==
    [kind |-> "ok", code |-> "", httpStatus |-> 0, title |-> title, content |-> content]
\* a rejection that is no DocsError (fetch itself rejected)
OtherError == [kind |-> "Error", code |-> "TypeError", httpStatus |-> 0, title |-> <<>>, content |-> <<>>]

\* one fetch() call: the endpoint, the document id in its URL, the bearer token of
\* its Authorization header (NoAuth when the call sets no header)
Call(endpoint, id, auth) == [endpoint |-> endpoint, id |-> id, auth |-> auth]

PrimaryCall(id, token) == Call("primary", id, token)
MetadataCall(id, token) == Call("metadata", id, token)
\* mutant: the export call forgets the Authorization header
ExportCallNoAuth(id, token) == Call("export", id, NoAuth)
ExportCall(id, token) == Call("export", id, token)
PublicCall(id) == Call("public", id, NoAuth)

Resp(status, body) == [status |-> status, body |-> body]

\* fetchGoogleDocsContent up to its first await
FetchStart(u, token) ==
    /\ fPc = "idle"
    /\ fUrl' = u
    /\ fToken' = token
    /\ LET id == extractDocumentId(UrlText(u))
       IN  IF id = NoId
           THEN /\ fResult' = DocsError("INVALID_URL", 400)
                /\ fPc' = "done"
                /\ UNCHANGED <<fDocId, fCalls>>
           ELSE /\ fDocId' = id
                /\ fCalls' = <<PrimaryCall(id, token)>>
                /\ fPc' = "primary"
                /\ UNCHANGED fResult
    /\ UNCHANGED <<fTitle, fResps>>

\* a direct call of fetchGoogleDocsContent
FetchCall(u, token) ==
    /\ FetchStart(u, token)
    /\ UNCHANGED <<svars, gvars, ivars, ovars>>

\* the decision to go on with fetchViaDriveExport instead of throwing
Fallback == [kind |-> "fallback", code |-> "", httpStatus |-> 0, title |-> <<>>, content |-> <<>>]

\* mutant: a 404 is passed on with its own status, and a 500 falls back too
PrimaryFailureLoose(status) ==
    IF status = 404 THEN DocsError("DOCUMENT_NOT_FOUND", 404)
    ELSE IF status = 403 \/ status = 401 \/ status = 500 THEN Fallback
    ELSE DocsError("ACCESS_DENIED", status)

\* what a non-ok primary response leads to: Fallback, or the DocsError thrown
PrimaryFailure(status) ==
    IF status = 404 THEN DocsError("DOCUMENT_NOT_FOUND", 400)
    ELSE IF status = 403 \/ status = 401 THEN Fallback
    ELSE DocsError("ACCESS_DENIED", status)

\* the primary Docs API call answers with a document
PrimaryOk(status, d) ==
    /\ fPc = "primary"
    /\ Ok(status)
    /\ fResps' = Append(fResps, Resp(status, Absent))
    /\ fResult' = Resolved(IF Truthy(d.title) THEN d.title.v ELSE UntitledDocument,
                           extractTextFromDocument(d))
    /\ fPc' = "done"
    /\ UNCHANGED <<fUrl, fToken, fDocId, fTitle, fCalls>>
    /\ UNCHANGED <<svars, gvars, ivars, ovars>>

\* the primary Docs API call answers with a non-success status
PrimaryNotOk(status) ==
    /\ fPc = "primary"
    /\ ~Ok(status)
    /\ fResps' = Append(fResps, Resp(status, Absent))
    /\ IF PrimaryFailure(status) = Fallback
       THEN \* fetchViaDriveExport up to its first await
            /\ fCalls' = Append(fCalls, MetadataCall(fDocId, fToken))
            /\ fPc' = "metadata"
            /\ UNCHANGED fResult
       ELSE /\ fResult' = PrimaryFailure(status)
            /\ fPc' = "done"
            /\ UNCHANGED fCalls
    /\ UNCHANGED <<fUrl, fToken, fDocId, fTitle>>
    /\ UNCHANGED <<svars, gvars, ivars, ovars>>

\* fetchViaDriveExport: the metadata call answers
MetadataResponse(status, name) ==
    /\ fPc = "metadata"
    /\ Ok(status) \/ name = Absent
    /\ fResps' = Append(fResps, Resp(status, name))
    /\ IF ~Ok(status)
       THEN \* return fetchViaPublicExport(documentId)
            /\ fCalls' = Append(fCalls, PublicCall(fDocId))
            /\ fPc' = "public"
            /\ UNCHANGED fTitle
       ELSE /\ fTitle' = IF Truthy(name) THEN name.v ELSE UntitledDocument
            /\ fCalls' = Append(fCalls, ExportCall(fDocId, fToken))
            /\ fPc' = "export"
    /\ UNCHANGED <<fUrl, fToken, fDocId, fResult>>
    /\ UNCHANGED <<svars, gvars, ivars, ovars>>

\* fetchViaDriveExport: the export call answers
ExportResponse(status, text) ==
    /\ fPc = "export"
    /\ Ok(status) \/ text = <<>>
    /\ fResps' = Append(fResps, Resp(status, text))
    /\ IF ~Ok(status)
       THEN \* return fetchViaPublicExport(documentId)
            /\ fCalls' = Append(fCalls, PublicCall(fDocId))
            /\ fPc' = "public"
            /\ UNCHANGED fResult
       ELSE /\ fResult' = Resolved(fTitle, Trim(text))
            /\ fPc' = "done"
            /\ UNCHANGED fCalls
    /\ UNCHANGED <<fUrl, fToken, fDocId, fTitle>>
    /\ UNCHANGED <<svars, gvars, ivars, ovars>>

\* fetchViaPublicExport after its fetch: html says whether content-type includes text/html
PublicOutcome(status, html, text) ==
    IF ~Ok(status)
    THEN IF status = 404 THEN DocsError("DOCUMENT_NOT_FOUND", 400)
         ELSE DocsError("ACCESS_DENIED", 403)
    ELSE IF html THEN DocsError("ACCESS_DENIED", 403)
    ELSE IF text = <<>> \/ Len(Trim(text)) = 0 THEN DocsError("ACCESS_DENIED", 403)
    ELSE Resolved(ImportedDocument, Trim(text))

PublicResponse(status, html, text) ==
    /\ fPc = "public"
    /\ Ok(status) \/ (text = <<>> /\ ~html)
    /\ fResps' = Append(fResps, Resp(status, text))
    /\ fResult' = PublicOutcome(status, html, text)
    /\ fPc' = "done"
    /\ UNCHANGED <<fUrl, fToken, fDocId, fTitle, fCalls>>
    /\ UNCHANGED <<svars, gvars, ivars, ovars>>

\* an awaited fetch() rejects (no HTTP response at all): the rejection propagates
FetchRejects ==
    /\ fPc \in {"primary", "metadata", "export", "public"}
    /\ fResult' = OtherError
    /\ fPc' = "done"
    /\ UNCHANGED <<fUrl, fToken, fDocId, fTitle, fCalls, fResps>>
    /\ UNCHANGED <<svars, gvars, ivars, ovars>>

----------------------------------------------------------------------------
(* summarizeDocument *)

ApiKeys == {Absent, Some(<<>>), Some(<<" ", " ">>), Some(<<"k">>)}

\* mutant: the key is tested without trimming it
shouldUseMockUntrimmed(key) == ~Truthy(key)

\* shouldUseMock: !apiKey || apiKey.trim() === ""
shouldUseMock(key) == ~Truthy(key) \/ Trim(key.v) = <<>>

\* a JSON value that is a string
Str(v) == [t |-> "str", v |-> v]
\* a JSON value that is not a string (a number)
Num == [t |-> "num", v |-> <<>>]

sampleTitles ==
    << <<"Executive Summary">>, <<"Key Findings">>, <<"Market Analysis">>,
       <<"Financial Overview">>, <<"Strategic Initiatives">>, <<"Risk Assessment">>,
       <<"Timeline & Milestones">>, <<"Resource Requirements">>, <<"Expected Outcomes">>,
       <<"Next Steps">> >>

sampleBullets ==
    << <<Str(<<"Revenue increased 25% quarter-over-quarter">>),
         Str(<<"Customer acquisition cost reduced by 15%">>),
         Str(<<"Net promoter score improved to 72">>)>>,
       <<Str(<<"Market share expanded to 18% in core segments">>),
         Str(<<"Three new enterprise clients onboarded">>),
         Str(<<"Product adoption rate exceeded targets by 20%">>)>>,
       <<Str(<<"Competitive landscape remains favorable">>),
         Str(<<"New market opportunities identified in APAC">>),
         Str(<<"Brand awareness increased 30% YoY">>)>>,
       <<Str(<<"Operating margin improved to 22%">>),
         Str(<<"Cash reserves at $50M">>),
         Str(<<"Debt-to-equity ratio at healthy 0.3">>)>>,
       <<Str(<<"Digital transformation 60% complete">>),
         Str(<<"New product launch scheduled Q2">>),
         Str(<<"Partnership discussions advancing with key players">>)>> >>

Slide(title, bullets) == [title |-> title, bullets |-> bullets]

\* the i-th (0-based) slide pushed by the loop of generateMockSlides
MockSlide(i) ==
    Slide(sampleTitles[(i % Len(sampleTitles)) + 1], sampleBullets[(i % Len(sampleBullets)) + 1])

RECURSIVE MockLoopInclusive(_, _, _)
\* mutant: the loop runs while i <= slideCount
MockLoopInclusive(i, slideCount, mockSlides) ==
    IF i <= slideCount
    THEN MockLoopInclusive(i + 1, slideCount, Append(mockSlides, MockSlide(i)))
    ELSE mockSlides

RECURSIVE MockLoop(_, _, _)
\* for (let i = 0; i < slideCount; i++) mockSlides.push(...)
MockLoop(i, slideCount, mockSlides) ==
    IF i < slideCount THEN MockLoop(i + 1, slideCount, Append(mockSlides, MockSlide(i)))
    ELSE mockSlides

Structure(title, slides) == [title |-> title, slides |-> slides]

generateMockSlides(title, slideCount) == Structure(title, MockLoop(0, slideCount, <<>>))

\* mutant: the instructions block is written whenever customPrompt is given,
\* the empty string included
buildExecutivePromptIfGiven(content, slideCount, customPrompt) ==
    <<"You are an expert ... for a ", ToString(slideCount), "-slide presentation",
      " targeting tech company executives.\n\nREQUIREMENTS:\n1. Create exactly ",
      ToString(slideCount), " slides", " (not including the title slide)\n2. ... 7. ...\n\n">>
    \o (IF customPrompt.has
        THEN <<"ADDITIONAL INSTRUCTIONS FROM USER:\n">> \o customPrompt.v \o <<"\n">>
        ELSE <<>>)
    \o <<"\n\nDOCUMENT CONTENT:\n">> \o content \o <<"\n\nOUTPUT FORMAT:\n...">>

\* buildExecutivePrompt: the template text with its three interpolations
buildExecutivePrompt(content, slideCount, customPrompt) ==
    <<"You are an expert ... for a ", ToString(slideCount), "-slide presentation",
      " targeting tech company executives.\n\nREQUIREMENTS:\n1. Create exactly ",
      ToString(slideCount), " slides", " (not including the title slide)\n2. ... 7. ...\n\n">>
    \o (IF Truthy(customPrompt)
        THEN <<"ADDITIONAL INSTRUCTIONS FROM USER:\n">> \o customPrompt.v \o <<"\n">>
        ELSE <<>>)
    \o <<"\n\nDOCUMENT CONTENT:\n">> \o content \o <<"\n\nOUTPUT FORMAT:\n...">>

(* The model's response: atoms is its text, in which the atom "<json>" stands for    *)
(* one well-formed JSON text and payload is the value that JSON text denotes.       *)

\* the entries of a slides array
SlideEntries ==
    {[title |-> Some(<<"S">>), bullets |-> Some(<<Str(<<"a">>), Str(<<>>), Str(<<" ", " ">>), Str(<<"b">>)>>)],
     [title |-> Some(<<"R">>), bullets |-> Some(<<Num, Str(<<" ", "a", " ">>)>>)],
     [title |-> Some(<<"Q">>), bullets |-> Some(<<>>)],
     [title |-> Absent, bullets |-> Some(<<Str(<<"a">>)>>)],
     [title |-> Some(<<>>), bullets |-> Some(<<Str(<<"a">>)>>)],
     [title |-> Some(<<"P">>), bullets |-> Absent]}

NoSlides == <<>>

\* top: "null" for the JSON null, "other" for a number, string or array, "object";
\* slides: "absent", "notArray" or "array"; title: the payload's own title field
Payloads ==
    {[top |-> "null", slides |-> "absent", list |-> NoSlides, title |-> Absent],
     [top |-> "other", slides |-> "absent", list |-> NoSlides, title |-> Absent]}
    \cup [top : {"object"}, slides : {"absent", "notArray"}, list : {NoSlides},
          title : {Absent, Some(<<"M">>)}]
    \cup [top : {"object"}, slides : {"array"}, list : SeqsUpTo(SlideEntries, MaxModelSlides),
          title : {Absent, Some(<<"M">>)}]

\* the markdown code fence (three backquotes), bare and with its json tag
Fence == "<fence>"
FenceJson == "<fence>json"

\* the texts around the JSON: bare, padded, fenced in the ways models do it, broken
TextShapes ==
    {<<"<json>">>,
     <<"\n", "<json>", " ">>,
     <<FenceJson, "\n", "<json>", "\n", Fence>>,
     <<Fence, "\n", "<json>", "\n", Fence>>,
     <<FenceJson, "<json>">>,
     <<"<json>", Fence>>,
     <<FenceJson, Fence, "<json>", Fence>>,
     <<" ", FenceJson, "\n", "<json>", "\n", Fence, "\n">>,
     <<"junk">>,
     <<"<json>", "junk">>,
     <<FenceJson, Fence>>,
     <<" ">>,
     <<>>}

SamplePayload ==
    [top |-> "object", slides |-> "array",
     list |-> <<[title |-> Some(<<"S">>),
                 bullets |-> Some(<<Str(<<"a">>), Str(<<>>), Str(<<" ", " ">>), Str(<<"b">>)>>)]>>,
     title |-> Some(<<"M">>)]

\* a JSON text wrapped the way models wrap it: an opening fence on a line of its
\* own, the text, a closing fence on a line of its own
Fenced(open, json) == <<open, "\n">> \o json \o <<"\n", Fence>>

Responses ==
    [atoms : TextShapes, payload : {SamplePayload}]
    \cup [atoms : {<<"<json>">>, Fenced(FenceJson, <<"<json>">>), Fenced(Fence, <<"<json>">>)},
          payload : Payloads]

\* mutant: only the opening fence is removed
StripFencesLeading(text) ==
    LET s0 == Trim(text)
        s1 == IF s0 # <<>> /\ Head(s0) = FenceJson THEN Tail(s0) ELSE s0
        s2 == IF s1 # <<>> /\ Head(s1) = Fence THEN Tail(s1) ELSE s1
    IN  Trim(s2)

\* the fence clean-up: three independent ifs on the trimmed text
StripFences(text) ==
    LET s0 == Trim(text)
        s1 == IF s0 # <<>> /\ Head(s0) = FenceJson THEN Tail(s0) ELSE s0
        s2 == IF s1 # <<>> /\ Head(s1) = Fence THEN Tail(s1)
              ELSE IF s1 # <<>> /\ Head(s1) = FenceJson THEN <<"json">> \o Tail(s1)
              ELSE s1
        s3 == IF s2 # <<>> /\ s2[Len(s2)] = Fence THEN SubSeq(s2, 1, Len(s2) - 1) ELSE s2
    IN  Trim(s3)

\* JSON.parse accepts exactly one JSON text
ParseOk(jsonStr) == jsonStr = <<"<json>">>

NoStructure == Structure(<<>>, <<>>)
NoIndex == 0 - 1

Pending == [kind |-> "pending", message |-> "", index |-> NoIndex, structure |-> NoStructure]
Returned(structure) == [kind |-> "ok", message |-> "", index |-> NoIndex, structure |-> structure]
Thrown(message, index) == [kind |-> "Error", message |-> message, index |-> index, structure |-> NoStructure]

\* mutant: only the title is validated
InvalidSlideTitleOnly(slide) == ~Truthy(slide.title)

\* !slide.title || !Array.isArray(slide.bullets)
InvalidSlide(slide) == ~Truthy(slide.title) \/ ~slide.bullets.has

\* mutant: the blank test without the trim
KeepBulletNonEmpty(b) == b.t = "str" /\ b.v # <<>>

\* typeof b === "string" && b.trim()
KeepBullet(b) == b.t = "str" /\ Trim(b.v) # <<>>

\* mutant: the survivors come out in reverse order
FilterBulletsReversed(bs) ==
    LET kept == SelectSeq(bs, KeepBullet)
    IN  [k \in 1..Len(kept) |-> kept[Len(kept) + 1 - k]]

\* Array.prototype.filter
FilterBullets(bs) == SelectSeq(bs, KeepBullet)

MapSlide(slide) == Slide(slide.title.v, FilterBullets(slide.bullets.v))

\* mutant: the model's own title wins when it sends one
ResultTitleFromModel(paramTitle, payload) ==
    IF Truthy(payload.title) THEN payload.title.v ELSE paramTitle

\* the title of the structure summarizeDocument returns
ResultTitle(paramTitle, payload) == paramTitle

\* summarizeDocument from the model's text on
Validate(title, response) ==
    IF response.atoms = <<>> THEN Thrown("No response from Gemini", NoIndex)
    ELSE IF ~ParseOk(StripFences(response.atoms))
    THEN Thrown("Failed to parse Gemini response as JSON", NoIndex)
    ELSE LET parsed == response.payload
         IN  IF parsed.top = "null" THEN Thrown("TypeError", NoIndex)
             ELSE IF parsed.slides # "array"
             THEN Thrown("Invalid response structure: missing slides array", NoIndex)
             ELSE LET bad == {i \in 1..Len(parsed.list) : InvalidSlide(parsed.list[i])}
                  IN  IF bad # {}
                      THEN Thrown("Invalid slide structure at index",
                                  (CHOOSE i \in bad : \A j \in bad : i <= j) - 1)
                      ELSE Returned(Structure(ResultTitle(title, parsed),
                                              [i \in 1..Len(parsed.list) |-> MapSlide(parsed.list[i])]))

Titles == {<<"T">>, <<"U">>}
Contents == {<<"c">>}
CustomPrompts == {Absent, Some(<<"p">>)}
SlideCounts == 0..MaxSlideCount

Params == [content : Contents, title : Titles, slideCount : SlideCounts, customPrompt : CustomPrompts]

NoParams == [content |-> <<>>, title |-> <<>>, slideCount |-> 0, customPrompt |-> Absent]

\* summarizeDocument up to its return (mock mode) or its await of generateContent
Summarize(params, caller) ==
    /\ sCaller' = caller
    /\ sParams' = params
    /\ IF shouldUseMock(apiKey)
       THEN /\ sResult' = Returned(generateMockSlides(params.title, params.slideCount))
            /\ sPc' = "done"
            /\ UNCHANGED <<genAI, sTrace, sPrompt>>
       ELSE /\ sPrompt' = buildExecutivePrompt(params.content, params.slideCount, params.customPrompt)
            /\ genAI' = IF genAI.has THEN genAI ELSE Some(apiKey.v)
            /\ sTrace' = <<"buildExecutivePrompt">>
                         \o (IF genAI.has THEN <<>> ELSE <<"new GoogleGenerativeAI">>)
                         \o <<"getGenerativeModel", "generateContent">>
            /\ sPc' = "llm"
            /\ UNCHANGED sResult
    /\ UNCHANGED <<apiKey, sText>>

\* a direct call of summarizeDocument
SummarizeCall(params) ==
    /\ sPc = "idle"
    /\ Summarize(params, "direct")
    /\ UNCHANGED <<hReq, hResp>>
    /\ UNCHANGED <<fvars, gvars, ivars, ovars>>

NoResponse == [status |-> 0, success |-> "absent", error |-> "", structure |-> NoStructure]
\* res.status(status).json({ error })
ErrorOnly(status, error) == [status |-> status, success |-> "absent", error |-> error, structure |-> NoStructure]
\* res.status(status).json({ success: false, error })
Failure(status, error) == [status |-> status, success |-> "false", error |-> error, structure |-> NoStructure]
\* res.json({ success: true, structure })
PreviewSuccess(structure) == [status |-> 200, success |-> "true", error |-> "", structure |-> structure]

\* an optional number field is truthy when present and not 0
TruthyNum(f) == f.has /\ f.v # 0

OptContents == {Absent, Some(<<>>), Some(<<"c">>)}
OptTitles == {Absent, Some(<<>>)} \cup {Some(t) : t \in Titles}
OptSlideCounts == {[has |-> FALSE, v |-> 0]} \cup {[has |-> TRUE, v |-> n] : n \in SlideCounts}

PreviewBodies ==
    [documentContent : OptContents, documentTitle : OptTitles, slideCount : OptSlideCounts,
     customPrompt : CustomPrompts]

NoBody == [documentContent |-> Absent, documentTitle |-> Absent,
           slideCount |-> [has |-> FALSE, v |-> 0], customPrompt |-> Absent]

\* the preview handler's validation
PreviewValid(body) ==
    Truthy(body.documentContent) /\ Truthy(body.documentTitle) /\ TruthyNum(body.slideCount)

\* what the handler answers once summarizeDocument has settled
PreviewAnswer(result) ==
    IF result.kind = "ok" THEN PreviewSuccess(result.structure)
    ELSE Failure(500, result.message)

\* POST /preview up to its response or its await of the model
PreviewRequest(body) ==
    /\ sPc = "idle"
    /\ hReq' = body
    /\ IF ~PreviewValid(body)
       THEN /\ hResp' = ErrorOnly(400, "Missing required fields")
            /\ sPc' = "done"
            /\ UNCHANGED <<apiKey, genAI, sCaller, sParams, sTrace, sPrompt, sText, sResult>>
       ELSE /\ Summarize([content |-> body.documentContent.v, title |-> body.documentTitle.v,
                          slideCount |-> body.slideCount.v, customPrompt |-> body.customPrompt],
                         "preview")
            /\ hResp' = IF sPc' = "done" THEN PreviewAnswer(sResult') ELSE NoResponse
    /\ UNCHANGED <<fvars, gvars, ivars, ovars>>

----------------------------------------------------------------------------
(* The presentation builder: createPresentation (services/slides.ts)       *)

\* the five template ids
validTemplates == {<<"modern">>, <<"corporate">>, <<"creative">>, <<"minimal">>, <<"executive">>}

\* an RgbColor, its components in hundredths
Rgb(red, green, blue) == Some(<<red, green, blue>>)

\* a TemplateConfig; the fields the table does not set are undefined
TemplateConfig(name, titleColor, bodyColor, backgroundColor) ==
    [name |-> name, titleColor |-> titleColor, bodyColor |-> bodyColor,
     backgroundColor |-> backgroundColor,
     titleSlideBackgroundColor |-> Absent, titleSlideTextColor |-> Absent,
     headerColor |-> Absent, titleColorWithHeader |-> Absent]

SLIDE_TEMPLATES ==
    [t \in validTemplates |->
        CASE t = <<"modern">> ->
               TemplateConfig("Modern", Rgb(10, 30, 60), Rgb(20, 20, 20), Rgb(100, 100, 100))
          [] t = <<"corporate">> ->
               TemplateConfig("Corporate", Rgb(15, 15, 15), Rgb(30, 30, 30), Rgb(98, 98, 98))
          [] t = <<"creative">> ->
               TemplateConfig("Creative", Rgb(80, 20, 40), Rgb(25, 25, 25), Rgb(100, 98, 95))
          [] t = <<"minimal">> ->
               TemplateConfig("Minimal", Rgb(0, 0, 0), Rgb(30, 30, 30), Rgb(100, 100, 100))
          [] t = <<"executive">> ->
               TemplateConfig("Executive", Rgb(10, 20, 40), Rgb(20, 20, 20), Rgb(95, 95, 97))]

\* SLIDE_TEMPLATES[template || "modern"]
getTemplateConfig(template) ==
    SLIDE_TEMPLATES[IF Truthy(template) THEN template.v ELSE <<"modern">>]

\* a || b on optional colours
OrElse(a, b) == IF Truthy(a) THEN a ELSE b

White == Rgb(100, 100, 100)
EmptyText == <<>>

\* one entry of the requests array: its kind, the object it addresses, and what
\* it carries of a text, an insertion index or vertical offset, a colour and
\* the placeholder ids it assigns
Req(kind, objectId, text, at, color, ids) ==
    [kind |-> kind, objectId |-> objectId, text |-> text, at |-> at, color |-> color, ids |-> ids]

\* slide.bullets.map((b) => `${b}`).join("\n")
RECURSIVE JoinLines(_)
JoinLines(bullets) ==
    IF bullets = <<>> THEN <<>>
    ELSE IF Len(bullets) = 1 THEN bullets[1].v
    ELSE bullets[1].v \o <<"\n">> \o JoinLines(Tail(bullets))

\* the requests for the title slide the new presentation comes with
TitleSlideRequests(structure, data, templateConfig) ==
    IF ~Truthy(data.titleSlideId) THEN <<>>
    ELSE <<Req("updatePageProperties", data.titleSlideId.v, EmptyText, NoIndex,
               OrElse(templateConfig.titleSlideBackgroundColor, templateConfig.backgroundColor),
               <<>>)>>
         \o (IF ~Truthy(data.titleShapeId) THEN <<>>
             ELSE <<Req("insertText", data.titleShapeId.v, structure.title, 0, Absent, <<>>),
                    Req("updateTextStyle", data.titleShapeId.v, EmptyText, NoIndex,
                        OrElse(templateConfig.titleSlideTextColor, templateConfig.titleColor),
                        <<>>)>>)

\* mutant: the slide is inserted at index i, before the slide created in the
\* pass before
SlideRequestsAtI(i, slide, templateConfig) ==
    LET slideId == <<"slide_", ToString(i)>>
        titleId == <<"title_", ToString(i)>>
        bodyId == <<"body_", ToString(i)>>
        headerShapeId == <<"header_", ToString(i)>>
        titleY == IF Truthy(templateConfig.headerColor) THEN 10 ELSE 25
        bodyY == IF Truthy(templateConfig.headerColor) THEN 80 ELSE 90
        titleTextColor == IF Truthy(templateConfig.headerColor)
                          THEN OrElse(templateConfig.titleColorWithHeader, White)
                          ELSE templateConfig.titleColor
    IN  <<Req("createSlide", slideId, EmptyText, i, Absent, <<titleId, bodyId>>),
          Req("updatePageProperties", slideId, EmptyText, NoIndex, templateConfig.backgroundColor, <<>>)>>
        \o (IF Truthy(templateConfig.headerColor)
            THEN <<Req("createShape", headerShapeId, EmptyText, NoIndex, Absent, <<slideId>>),
                   Req("updateShapeProperties", headerShapeId, EmptyText, NoIndex,
                       templateConfig.headerColor, <<>>)>>
            ELSE <<>>)
        \o <<Req("updatePageElementTransform", titleId, EmptyText, titleY, Absent, <<>>),
             Req("updatePageElementTransform", bodyId, EmptyText, bodyY, Absent, <<>>),
             Req("insertText", titleId, slide.title, 0, Absent, <<>>),
             Req("updateTextStyle", titleId, EmptyText, NoIndex, titleTextColor, <<>>),
             Req("insertText", bodyId, JoinLines(slide.bullets), 0, Absent, <<>>),
             Req("updateTextStyle", bodyId, EmptyText, NoIndex, templateConfig.bodyColor, <<>>),
             Req("createParagraphBullets", bodyId, EmptyText, NoIndex, Absent, <<>>)>>

\* the requests one pass of the content-slide loop pushes, i counted from 0
SlideRequests(i, slide, templateConfig) ==
    LET slideId == <<"slide_", ToString(i)>>
        titleId == <<"title_", ToString(i)>>
        bodyId == <<"body_", ToString(i)>>
        headerShapeId == <<"header_", ToString(i)>>
        titleY == IF Truthy(templateConfig.headerColor) THEN 10 ELSE 25
        bodyY == IF Truthy(templateConfig.headerColor) THEN 80 ELSE 90
        titleTextColor == IF Truthy(templateConfig.headerColor)
                          THEN OrElse(templateConfig.titleColorWithHeader, White)
                          ELSE templateConfig.titleColor
    IN  <<Req("createSlide", slideId, EmptyText, i + 1, Absent, <<titleId, bodyId>>),
          Req("updatePageProperties", slideId, EmptyText, NoIndex, templateConfig.backgroundColor, <<>>)>>
        \o (IF Truthy(templateConfig.headerColor)
            THEN <<Req("createShape", headerShapeId, EmptyText, NoIndex, Absent, <<slideId>>),
                   Req("updateShapeProperties", headerShapeId, EmptyText, NoIndex,
                       templateConfig.headerColor, <<>>)>>
            ELSE <<>>)
        \o <<Req("updatePageElementTransform", titleId, EmptyText, titleY, Absent, <<>>),
             Req("updatePageElementTransform", bodyId, EmptyText, bodyY, Absent, <<>>),
             Req("insertText", titleId, slide.title, 0, Absent, <<>>),
             Req("updateTextStyle", titleId, EmptyText, NoIndex, titleTextColor, <<>>),
             Req("insertText", bodyId, JoinLines(slide.bullets), 0, Absent, <<>>),
             Req("updateTextStyle", bodyId, EmptyText, NoIndex, templateConfig.bodyColor, <<>>),
             Req("createParagraphBullets", bodyId, EmptyText, NoIndex, Absent, <<>>)>>

\* the content-slide loop from index i on
RECURSIVE SlideLoop(_, _, _, _)
SlideLoop(i, structure, templateConfig, requests) ==
    IF i < Len(structure.slides)
    THEN SlideLoop(i + 1, structure, templateConfig,
                   requests \o SlideRequests(i, structure.slides[i + 1], templateConfig))
    ELSE requests

\* the whole requests array
BuildRequests(structure, data, templateConfig) ==
    SlideLoop(0, structure, templateConfig, TitleSlideRequests(structure, data, templateConfig))

\* presentation.data: the id of the new presentation, of its title slide and of
\* the title placeholder on it, each possibly missing
Data(presentationId, titleSlideId, titleShapeId) ==
    [received |-> TRUE, presentationId |-> presentationId, titleSlideId |-> titleSlideId,
     titleShapeId |-> titleShapeId]

PresentationData ==
    {Data(Absent, Absent, Absent),
     Data(Some(<<>>), Some(<<"p">>), Absent),
     Data(Some(<<"id1">>), Absent, Absent),
     Data(Some(<<"id1">>), Some(<<"p">>), Absent),
     Data(Some(<<"id1">>), Some(<<"p">>), Some(<<"i0">>))}

\* presentations.create has not answered
NoData == [received |-> FALSE, presentationId |-> Absent, titleSlideId |-> Absent,
           titleShapeId |-> Absent]

NoPbParams == [structure |-> NoStructure, accessToken |-> <<>>, userEmail |-> <<>>, template |-> Absent]

\* slides.presentations.create({ requestBody: { title } })
CreateCall(title, accessToken) ==
    [api |-> "presentations.create", token |-> accessToken, title |-> title,
     presentationId |-> <<>>, requests |-> <<>>]

\* mutant: the batch carries the first request only
BatchUpdateCallHead(presentationId, accessToken, requests) ==
    [api |-> "presentations.batchUpdate", token |-> accessToken, title |-> <<>>,
     presentationId |-> presentationId, requests |-> <<Head(requests)>>]

\* slides.presentations.batchUpdate({ presentationId, requestBody: { requests } })
BatchUpdateCall(presentationId, accessToken, requests) ==
    [api |-> "presentations.batchUpdate", token |-> accessToken, title |-> <<>>,
     presentationId |-> presentationId, requests |-> requests]

slidesUrl(presentationId) ==
    <<"https://docs.google.com/presentation/d/">> \o presentationId \o <<"/edit">>

PbPending == [kind |-> "pending", message |-> "", slidesUrl |-> <<>>, slidesId |-> <<>>]
PbReturned(presentationId) ==
    [kind |-> "ok", message |-> "", slidesUrl |-> slidesUrl(presentationId), slidesId |-> presentationId]
PbThrown(message) == [kind |-> "Error", message |-> message, slidesUrl |-> <<>>, slidesId |-> <<>>]

----------------------------------------------------------------------------
(* The generate handler: POST / (routes/generate.ts)                       *)

NoGenResponse == [status |-> 0, success |-> "absent", error |-> "", slidesUrl |-> <<>>, slidesId |-> <<>>]
\* res.status(status).json({ success: false, error })
GenFailure(status, error) ==
    [status |-> status, success |-> "false", error |-> error, slidesUrl |-> <<>>, slidesId |-> <<>>]
\* res.json({ success: true, slidesUrl, slidesId })
GenSuccess(result) ==
    [status |-> 200, success |-> "true", error |-> "", slidesUrl |-> result.slidesUrl,
     slidesId |-> result.slidesId]

OptTokens == {Absent, Some(<<>>), Some(<<"tok">>)}
OptEmails == {Absent, Some(<<"e@x">>)}
OptTemplates == {Absent, Some(<<>>), Some(<<"modern">>), Some(<<"corporate">>), Some(<<"bogus">>)}
GenSlideCounts ==
    {[has |-> FALSE, v |-> 0]} \cup {[has |-> TRUE, v |-> n] : n \in (0 - 1)..MaxSlideCount}

GenerateBodies ==
    [documentContent : {Absent, Some(<<"c">>)}, documentTitle : {Absent, Some(<<"T">>)},
     slideCount : GenSlideCounts, customPrompt : {Absent},
     accessToken : OptTokens, userEmail : OptEmails, template : OptTemplates]

NoGenBody ==
    [documentContent |-> Absent, documentTitle |-> Absent, slideCount |-> [has |-> FALSE, v |-> 0],
     customPrompt |-> Absent, accessToken |-> Absent, userEmail |-> Absent, template |-> Absent]

\* body.template && !validTemplates.includes(body.template)
TemplateRejected(template) == Truthy(template) /\ template.v \notin validTemplates

\* the handler from the return of summarizeDocument up to its response or its
\* await of presentations.create
AfterSummary(body, result) ==
    /\ IF result.kind # "ok"
       THEN /\ gResp' = GenFailure(500, result.message)
            /\ gPc' = "done"
            /\ UNCHANGED <<pbParams, pbCalls>>
       ELSE IF TemplateRejected(body.template)
       THEN /\ gResp' = GenFailure(400, "Invalid template. Must be one of: modern, corporate, creative, minimal, executive")
            /\ gPc' = "done"
            /\ UNCHANGED <<pbParams, pbCalls>>
       ELSE /\ pbParams' = [structure |-> result.structure, accessToken |-> body.accessToken.v,
                            userEmail |-> body.userEmail.v, template |-> body.template]
            /\ pbCalls' = <<CreateCall(result.structure.title, body.accessToken.v)>>
            /\ gPc' = "create"
            /\ UNCHANGED gResp
    /\ UNCHANGED <<pbData, pbResult>>

\* mutant: the authentication check asks for the token only
MissingAuthTokenOnly(body) == ~Truthy(body.accessToken)

\* !body.accessToken || !body.userEmail
MissingAuth(body) == ~Truthy(body.accessToken) \/ ~Truthy(body.userEmail)

\* POST / up to its response or its first await
GenerateRequest(body) ==
    /\ gPc = "idle"
    /\ sPc = "idle"
    /\ gReq' = body
    /\ IF ~Truthy(body.documentContent) \/ ~Truthy(body.documentTitle) \/ ~TruthyNum(body.slideCount)
       THEN /\ gResp' = GenFailure(400, "Missing required fields: documentContent, documentTitle, slideCount")
            /\ gPc' = "done"
            /\ UNCHANGED <<svars, pbParams, pbCalls, pbData, pbResult>>
       ELSE IF MissingAuth(body)
       THEN /\ gResp' = GenFailure(401, "Missing authentication: accessToken and userEmail required")
            /\ gPc' = "done"
            /\ UNCHANGED <<svars, pbParams, pbCalls, pbData, pbResult>>
       ELSE IF body.slideCount.v < 3 \/ body.slideCount.v > 10
       THEN /\ gResp' = GenFailure(400, "slideCount must be between 3 and 10")
            /\ gPc' = "done"
            /\ UNCHANGED <<svars, pbParams, pbCalls, pbData, pbResult>>
       ELSE /\ Summarize([content |-> body.documentContent.v, title |-> body.documentTitle.v,
                          slideCount |-> body.slideCount.v, customPrompt |-> body.customPrompt],
                         "generate")
            /\ UNCHANGED <<hReq, hResp>>
            /\ IF sPc' = "done"
               THEN AfterSummary(body, sResult')
               ELSE /\ gPc' = "summarize"
                    /\ UNCHANGED <<gResp, pbParams, pbCalls, pbData, pbResult>>
    /\ UNCHANGED <<fvars, ivars, ovars>>

\* presentations.create resolves; createPresentation runs up to its return, its
\* throw or its await of batchUpdate, and the handler answers when it has settled
CreateResponds(data) ==
    /\ gPc = "create"
    /\ pbData' = data
    /\ IF ~Truthy(data.presentationId)
       THEN /\ pbResult' = PbThrown("Failed to create presentation")
            /\ gResp' = GenFailure(500, "Failed to create presentation")
            /\ gPc' = "done"
            /\ UNCHANGED pbCalls
       ELSE LET requests == BuildRequests(pbParams.structure, data, getTemplateConfig(pbParams.template))
            IN  IF Len(requests) > 0
                THEN /\ pbCalls' = Append(pbCalls, BatchUpdateCall(data.presentationId.v,
                                                                   pbParams.accessToken, requests))
                     /\ gPc' = "batch"
                     /\ UNCHANGED <<pbResult, gResp>>
                ELSE /\ pbResult' = PbReturned(data.presentationId.v)
                     /\ gResp' = GenSuccess(pbResult')
                     /\ gPc' = "done"
                     /\ UNCHANGED pbCalls
    /\ UNCHANGED <<gReq, pbParams>>
    /\ UNCHANGED <<fvars, svars, ivars, ovars>>

\* a Slides API call rejects: createPresentation rejects and the handler's catch answers
SlidesApiRejects ==
    /\ gPc \in {"create", "batch"}
    /\ pbResult' = PbThrown("Slides API error")
    /\ gResp' = GenFailure(500, "Slides API error")
    /\ gPc' = "done"
    /\ UNCHANGED <<gReq, pbParams, pbCalls, pbData>>
    /\ UNCHANGED <<fvars, svars, ivars, ovars>>

\* batchUpdate resolves: createPresentation returns and the handler answers
BatchUpdateResponds ==
    /\ gPc = "batch"
    /\ pbResult' = PbReturned(pbData.presentationId.v)
    /\ gResp' = GenSuccess(pbResult')
    /\ gPc' = "done"
    /\ UNCHANGED <<gReq, pbParams, pbCalls, pbData>>
    /\ UNCHANGED <<fvars, svars, ivars, ovars>>

----------------------------------------------------------------------------
(* The preview handler with import mode: POST /preview taking either the   *)
(* document's text or a Google Docs URL. Its validation is the one the     *)
(* specification and the route tests describe; where they leave the order  *)
(* of two checks open, either answer is possible.                          *)

NoUrl == [has |-> FALSE, v |-> CHOOSE u \in Urls : TRUE]
SomeUrl(u) == [has |-> TRUE, v |-> u]
NoToken == [has |-> FALSE, v |-> NoAuth]
SomeToken(token) == [has |-> TRUE, v |-> token]

\* one Google Docs document URL and one URL of another host
ImportUrls ==
    {u \in Urls : u.path = DocumentPath /\ u.id = <<"A">> /\ u.suffix = <<"/edit">>
                  /\ u.query = <<>> /\ u.host \in {DocsHost, <<"example.com">>}}

ImportBodies ==
    [documentContent : {Absent, Some(<<"c">>)},
     googleDocsUrl : {NoUrl} \cup {SomeUrl(u) : u \in ImportUrls},
     documentTitle : {Absent, Some(<<"T">>)},
     slideCount : {[has |-> FALSE, v |-> 0], [has |-> TRUE, v |-> 3]},
     customPrompt : {Absent},
     accessToken : {NoToken, SomeToken("tokA")}]

NoImportBody ==
    [documentContent |-> Absent, googleDocsUrl |-> NoUrl, documentTitle |-> Absent,
     slideCount |-> [has |-> FALSE, v |-> 0], customPrompt |-> Absent, accessToken |-> NoToken]

NoImportResponse ==
    [status |-> 0, success |-> "absent", error |-> "", structure |-> NoStructure, documentTitle |-> <<>>]
\* { success: false, error } with a status
ImportFailure(status, error) ==
    [status |-> status, success |-> "false", error |-> error, structure |-> NoStructure,
     documentTitle |-> <<>>]
\* { success: true, structure, documentTitle }
ImportSuccess(structure, documentTitle) ==
    [status |-> 200, success |-> "true", error |-> "", structure |-> structure,
     documentTitle |-> documentTitle]

\* import mode: a googleDocsUrl is given
ImportMode(body) == body.googleDocsUrl.has

\* paste mode: documentContent and documentTitle are given
PasteMode(body) == Truthy(body.documentContent) /\ Truthy(body.documentTitle)

\* mutant: import mode asks for no token
ImportNeedsTokenNever(body) == FALSE

\* import mode additionally requires accessToken
ImportNeedsToken(body) == ImportMode(body) /\ ~body.accessToken.has

\* the validation failures that apply to a request
ValidationFailures(body) ==
    (IF ~ImportMode(body) /\ ~PasteMode(body)
     THEN {ImportFailure(400, "Either documentContent or googleDocsUrl is required")} ELSE {})
    \cup (IF ImportNeedsToken(body)
          THEN {ImportFailure(401, "Sign in required to import from Google Docs")} ELSE {})
    \cup (IF ~TruthyNum(body.slideCount)
          THEN {ImportFailure(400, "Missing required fields")} ELSE {})

\* what the handler answers once summarizeDocument has settled
ImportAnswer(result, documentTitle) ==
    IF result.kind = "ok" THEN ImportSuccess(result.structure, documentTitle)
    ELSE ImportFailure(500, result.message)

\* the handler from the document's text on: summarizeDocument and the answer
ImportSummarize(body, content, title) ==
    /\ Summarize([content |-> content, title |-> title, slideCount |-> body.slideCount.v,
                  customPrompt |-> body.customPrompt], "import")
    /\ UNCHANGED <<hReq, hResp>>
    /\ IF sPc' = "done"
       THEN iResp' = ImportAnswer(sResult', title) /\ iPc' = "done"
       ELSE iResp' = NoImportResponse /\ iPc' = "summarize"

\* the handler's answer to a failed fetch
FetchFailure(result) ==
    IF result.kind = "DocsError" THEN ImportFailure(result.httpStatus, result.code)
    ELSE ImportFailure(500, result.code)

\* POST /preview up to its response or its first await
ImportPreviewRequest(body) ==
    /\ iPc = "idle"
    /\ sPc = "idle"
    /\ fPc = "idle"
    /\ iReq' = body
    /\ IF ValidationFailures(body) # {}
       THEN /\ iResp' \in ValidationFailures(body)
            /\ iPc' = "done"
            /\ UNCHANGED <<fvars, svars>>
       ELSE IF ImportMode(body)
       THEN /\ FetchStart(body.googleDocsUrl.v, body.accessToken.v)
            /\ IF fPc' = "done"
               THEN iResp' = FetchFailure(fResult') /\ iPc' = "done"
               ELSE iResp' = NoImportResponse /\ iPc' = "fetch"
            /\ UNCHANGED svars
       ELSE /\ ImportSummarize(body, body.documentContent.v, body.documentTitle.v)
            /\ UNCHANGED fvars
    /\ UNCHANGED <<gvars, ovars>>

\* fetchGoogleDocsContent has settled: the handler goes on with the fetched text
ImportFetched ==
    /\ iPc = "fetch"
    /\ fPc = "done"
    /\ IF fResult.kind = "ok"
       THEN ImportSummarize(iReq, fResult.content,
                            IF Truthy(iReq.documentTitle) THEN iReq.documentTitle.v ELSE fResult.title)
       ELSE /\ iResp' = FetchFailure(fResult)
            /\ iPc' = "done"
            /\ UNCHANGED svars
    /\ UNCHANGED <<fvars, gvars, iReq, ovars>>

----------------------------------------------------------------------------
(* The model's answer                                                      *)

\* generateContent resolves with the model's text; summarizeDocument runs to its end
\* and the handler that awaits it goes on
ModelResponds(response) ==
    /\ sPc = "llm"
    /\ sText' = response
    /\ sResult' = Validate(sParams.title, response)
    /\ sPc' = "done"
    /\ hResp' = IF sCaller = "preview" THEN PreviewAnswer(sResult') ELSE hResp
    /\ UNCHANGED <<apiKey, genAI, sCaller, sParams, sTrace, sPrompt, hReq>>
    /\ IF sCaller = "generate" THEN AfterSummary(gReq, sResult') /\ UNCHANGED gReq
       ELSE UNCHANGED gvars
    /\ IF sCaller = "import"
       THEN iResp' = ImportAnswer(sResult', sParams.title) /\ iPc' = "done" /\ UNCHANGED iReq
       ELSE UNCHANGED ivars
    /\ UNCHANGED <<fvars, ovars>>

\* generateContent rejects (network failure, quota, bad key)
ModelRejects ==
    /\ sPc = "llm"
    /\ sResult' = Thrown("generateContent failed", NoIndex)
    /\ sPc' = "done"
    /\ hResp' = IF sCaller = "preview" THEN PreviewAnswer(sResult') ELSE hResp
    /\ UNCHANGED <<apiKey, genAI, sCaller, sParams, sTrace, sPrompt, sText, hReq>>
    /\ IF sCaller = "generate" THEN AfterSummary(gReq, sResult') /\ UNCHANGED gReq
       ELSE UNCHANGED gvars
    /\ IF sCaller = "import"
       THEN iResp' = ImportAnswer(sResult', sParams.title) /\ iPc' = "done" /\ UNCHANGED iReq
       ELSE UNCHANGED ivars
    /\ UNCHANGED <<fvars, ovars>>

NoText == [atoms |-> <<>>, payload |-> [top |-> "null", slides |-> "absent", list |-> NoSlides, title |-> Absent]]

----------------------------------------------------------------------------
(* Requests handled side by side: each handler awaits summarizeDocument    *)
(* while the others run (services/gemini: index.ts 100-236)                *)

RequestIds == {1, 2}
Callers == {"preview", "generate"}
ConcurrentParams ==
    [content : Contents, title : Titles, slideCount : {3, 5}, customPrompt : {Absent}]
ConcurrentResponses ==
    {r \in Responses : r.atoms \in {<<"<json>">>, <<"junk">>, <<>>} /\ r.payload = SamplePayload}

NoCall ==
    [pc |-> "none", caller |-> "none", params |-> NoParams, created |-> FALSE, client |-> Absent,
     prompt |-> <<>>, text |-> NoText, result |-> Pending]

\* mutant: the client is built without the configured key
getGenAIUnconfigured(cached, key) == IF cached.has THEN cached ELSE Some(<<>>)

\* getGenAI: the module's client, built from GEMINI_API_KEY || "" on first use
getGenAI(cached, key) ==
    IF cached.has THEN cached ELSE Some(IF Truthy(key) THEN key.v ELSE <<>>)

\* request id reaches summarizeDocument: up to its return (mock mode) or its
\* await of generateContent
ConcurrentSummarize(id, caller, params) ==
    /\ qReqs[id].pc = "none"
    /\ IF shouldUseMock(apiKey)
       THEN /\ qReqs' = [qReqs EXCEPT ![id] =
                            [NoCall EXCEPT !.pc = "done", !.caller = caller, !.params = params,
                                           !.result = Returned(generateMockSlides(params.title,
                                                                                  params.slideCount))]]
            /\ UNCHANGED genAI
       ELSE /\ genAI' = getGenAI(genAI, apiKey)
            /\ qReqs' = [qReqs EXCEPT ![id] =
                            [NoCall EXCEPT !.pc = "llm", !.caller = caller, !.params = params,
                                           !.created = ~genAI.has, !.client = genAI',
                                           !.prompt = buildExecutivePrompt(params.content,
                                                                           params.slideCount,
                                                                           params.customPrompt)]]
    /\ UNCHANGED <<apiKey, sPc, sCaller, sParams, sTrace, sPrompt, sText, sResult, hReq, hResp>>
    /\ UNCHANGED <<fvars, gvars, ivars, cvars, avars>>

\* generateContent answers request id
ConcurrentModelResponds(id, response) ==
    /\ qReqs[id].pc = "llm"
    /\ qReqs' = [qReqs EXCEPT ![id].pc = "done", ![id].text = response,
                              ![id].result = Validate(qReqs[id].params.title, response)]
    /\ UNCHANGED <<fvars, svars, gvars, ivars, cvars, avars>>

\* generateContent rejects for request id
ConcurrentModelRejects(id) ==
    /\ qReqs[id].pc = "llm"
    /\ qReqs' = [qReqs EXCEPT ![id].pc = "done",
                              ![id].result = Thrown("generateContent failed", NoIndex)]
    /\ UNCHANGED <<fvars, svars, gvars, ivars, cvars, avars>>

ConcurrentIdle == qReqs = [id \in RequestIds |-> NoCall]

----------------------------------------------------------------------------
(* The frontend App (frontend/src/App.test.tsx from line 592; part_003)    *)

TOKEN_EXPIRY_BUFFER_MS == 60 * 1000
DEFAULT_TOKEN_EXPIRY_SECONDS == 3600

\* the users the userinfo endpoint knows; "none" for a null user
Users == {"alice", "bob"}
AccessTokens == {<<"tok">>}

\* a stored string per key. JSON.stringify(userInfo) parses back to userInfo, any
\* other text under the user key does not parse; expiry.toString() reads back
\* with parseInt as the number, any other text under the expiry key as NaN
NoStoredUser == [has |-> FALSE, valid |-> FALSE, v |-> "none"]
JSONstringify(userInfo) == [has |-> TRUE, valid |-> TRUE, v |-> userInfo]
CorruptedUser == [has |-> TRUE, valid |-> FALSE, v |-> "none"]
NoStoredExpiry == [has |-> FALSE, numeric |-> FALSE, v |-> 0]
ExpiryToString(n) == [has |-> TRUE, numeric |-> TRUE, v |-> n]
CorruptedExpiry == [has |-> TRUE, numeric |-> FALSE, v |-> 0]

\* clearAuthFromStorage
clearAuthFromStorage == [token |-> Absent, user |-> NoStoredUser, expiry |-> NoStoredExpiry]

\* saveAuthToStorage(token, userInfo, expiresIn) at Date.now() = now
saveAuthToStorage(token, userInfo, expiresIn, now) ==
    [token |-> Some(token), user |-> JSONstringify(userInfo),
     expiry |-> ExpiryToString(now + expiresIn * 1000)]

\* Date.now() > expiresAt - TOKEN_EXPIRY_BUFFER_MS, false when expiresAt is NaN
Expired(expiry, now) == expiry.numeric /\ now > expiry.v - TOKEN_EXPIRY_BUFFER_MS

\* getStoredAuth at Date.now() = now: whether it returns a session, and the
\* storage it leaves
getStoredAuth(store, now) ==
    IF ~Truthy(store.token) \/ ~store.user.has \/ ~store.expiry.has
    THEN [stored |-> FALSE, store |-> store]
    ELSE IF Expired(store.expiry, now)
    THEN [stored |-> FALSE, store |-> clearAuthFromStorage]
    ELSE IF ~store.user.valid
    THEN [stored |-> FALSE, store |-> clearAuthFromStorage]
    ELSE [stored |-> TRUE, store |-> store]

NoLogin == [pending |-> FALSE, token |-> <<>>, expires_in |-> 0]
NoPreview == [has |-> FALSE, structure |-> NoStructure]
NoExportResult == [has |-> FALSE, slidesUrl |-> <<>>]
NoRequest == [sent |-> FALSE, documentContent |-> <<>>]
NoHist ==
    [found |-> clearAuthFromStorage, foundAt |-> 0, last |-> "none", signInExpiry |-> 0 - 1,
     preview |-> 0, exported |-> [preview |-> 0, structure |-> NoStructure], link |-> 0]

\* the form's document texts and the structures the backend may answer with
AppContents == {<<"c">>, <<"d">>}
AppStructures == {generateMockSlides(t, 3) : t \in Titles}

\* the React state of a fresh App
FreshState ==
    /\ aAccessToken = <<>>
    /\ aUser = "none"
    /\ aLogin = NoLogin
    /\ aDocumentContent = <<>>
    /\ aLoading = FALSE
    /\ aResult = NoPreview
    /\ aError = ""
    /\ aExporting = FALSE
    /\ aExportResult = NoExportResult
    /\ aPreviewReq = NoRequest
    /\ aExportReq = NoRequest

AppIdle ==
    /\ aPc = "unmounted"
    /\ aStore = clearAuthFromStorage
    /\ aNow = 0
    /\ FreshState
    /\ aCreated = NoPreview
    /\ aHist = NoHist

formvars == <<aDocumentContent, aLoading, aResult, aExporting, aExportResult, aPreviewReq,
              aExportReq, aCreated>>
backend == <<fvars, svars, gvars, ivars, cvars, qvars>>

\* mount: restoreAuth up to its await of validateToken, or to its end when
\* getStoredAuth returns null
Mount ==
    /\ aPc = "unmounted"
    /\ LET got == getStoredAuth(aStore, aNow)
       IN  /\ aStore' = got.store
           /\ aPc' = IF got.stored THEN "restoring" ELSE "ready"
           /\ aHist' = [aHist EXCEPT !.found = aStore, !.foundAt = aNow, !.last = "mount"]
    /\ UNCHANGED <<aNow, aAccessToken, aUser, aLogin, aError, formvars>>
    /\ UNCHANGED backend

\* restoreAuth from the answer of validateToken(stored.token): a user, or null
\* ("none") when the userinfo request fails
RestoreValidated(validatedUser) ==
    /\ aPc = "restoring"
    /\ IF validatedUser # "none"
       THEN /\ aAccessToken' = aStore.token.v
            /\ aUser' = validatedUser
            /\ aStore' = saveAuthToStorage(aStore.token.v, validatedUser,
                                           DEFAULT_TOKEN_EXPIRY_SECONDS, aNow)
            /\ aHist' = [aHist EXCEPT !.last = "restored"]
       ELSE /\ aStore' = clearAuthFromStorage
            /\ aHist' = [aHist EXCEPT !.last = "rejected"]
            /\ UNCHANGED <<aAccessToken, aUser>>
    /\ aPc' = "ready"
    /\ UNCHANGED <<aNow, aLogin, aError, formvars>>
    /\ UNCHANGED backend

\* login.onSuccess up to its await of validateToken
LoginSuccess(token, expires_in) ==
    /\ aPc = "ready"
    /\ aUser = "none"
    /\ ~aLogin.pending
    /\ aAccessToken' = token
    /\ aLogin' = [pending |-> TRUE, token |-> token, expires_in |-> expires_in]
    /\ aHist' = [aHist EXCEPT !.last = "signing in"]
    /\ UNCHANGED <<aPc, aStore, aNow, aUser, aError, formvars>>
    /\ UNCHANGED backend

\* login.onSuccess from the answer of validateToken
LoginValidated(userInfo) ==
    /\ aPc = "ready"
    /\ aLogin.pending
    /\ aLogin' = NoLogin
    /\ IF userInfo # "none"
       THEN LET expiresIn == IF aLogin.expires_in # 0 THEN aLogin.expires_in
                             ELSE DEFAULT_TOKEN_EXPIRY_SECONDS
            IN  /\ aUser' = userInfo
                /\ aStore' = saveAuthToStorage(aLogin.token, userInfo, expiresIn, aNow)
                /\ aHist' = [aHist EXCEPT !.last = "login",
                                          !.signInExpiry = aNow + expiresIn * 1000]
                /\ UNCHANGED <<aAccessToken, aError>>
       ELSE /\ aAccessToken' = <<>>
            /\ aError' = "Failed to fetch user information. Please try again."
            /\ aHist' = [aHist EXCEPT !.last = "login failed"]
            /\ UNCHANGED <<aUser, aStore>>
    /\ UNCHANGED <<aPc, aNow, formvars>>
    /\ UNCHANGED backend

\* handleLogout, from the Sign Out button shown for a user
handleLogout ==
    /\ aPc = "ready"
    /\ aUser # "none"
    /\ aStore' = clearAuthFromStorage
    /\ aAccessToken' = <<>>
    /\ aUser' = "none"
    /\ aExportResult' = NoExportResult
    /\ aHist' = [aHist EXCEPT !.last = "logout"]
    /\ UNCHANGED <<aPc, aNow, aLogin, aError, aDocumentContent, aLoading, aResult, aExporting,
                   aPreviewReq, aExportReq, aCreated>>
    /\ UNCHANGED backend

\* the page is loaded again: the React state starts afresh, requests in flight
\* are dropped, localStorage stays
Reload ==
    /\ aPc # "unmounted"
    /\ aPc' = "unmounted"
    /\ aAccessToken' = <<>>
    /\ aUser' = "none"
    /\ aLogin' = NoLogin
    /\ aDocumentContent' = <<>>
    /\ aLoading' = FALSE
    /\ aResult' = NoPreview
    /\ aError' = ""
    /\ aExporting' = FALSE
    /\ aExportResult' = NoExportResult
    /\ aPreviewReq' = NoRequest
    /\ aExportReq' = NoRequest
    /\ aHist' = [aHist EXCEPT !.last = "reload"]
    /\ UNCHANGED <<aStore, aNow, aCreated>>
    /\ UNCHANGED backend

\* time passes
TickMs == 60 * 1000
Tick ==
    /\ aNow + TickMs <= MaxNow
    /\ aNow' = aNow + TickMs
    /\ UNCHANGED <<aPc, aStore, aAccessToken, aUser, aLogin, aError, aHist, formvars>>
    /\ UNCHANGED backend

\* setDocumentContent, from the form
setDocumentContent(content) ==
    /\ aPc = "ready"
    /\ aDocumentContent # content
    /\ aDocumentContent' = content
    /\ UNCHANGED <<aPc, aStore, aNow, aAccessToken, aUser, aLogin, aError, aHist, aLoading, aResult,
                   aExporting, aExportResult, aPreviewReq, aExportReq, aCreated>>
    /\ UNCHANGED backend

\* handleSubmit up to its await of fetch; the button is disabled while loading
\* and while the form is empty
handleSubmit ==
    /\ aPc = "ready"
    /\ ~aLoading
    /\ aDocumentContent # <<>>
    /\ aHist.preview < MaxSubmits
    /\ aLoading' = TRUE
    /\ aError' = ""
    /\ aResult' = NoPreview
    /\ aPreviewReq' = [sent |-> TRUE, documentContent |-> aDocumentContent]
    /\ aHist' = [aHist EXCEPT !.preview = @ + 1]
    /\ UNCHANGED <<aPc, aStore, aNow, aAccessToken, aUser, aLogin, aDocumentContent, aExporting,
                   aExportResult, aExportReq, aCreated>>
    /\ UNCHANGED backend

\* handleSubmit from the answer of POST /api/generate/preview: success with a
\* structure, or a failure with or without an error text
PreviewResponds(success, structure) ==
    /\ aPc = "ready"
    /\ aPreviewReq.sent
    /\ aPreviewReq' = NoRequest
    /\ IF success
       THEN aResult' = [has |-> TRUE, structure |-> structure] /\ UNCHANGED aError
       ELSE aError' = "Unknown error occurred" /\ UNCHANGED aResult
    /\ aLoading' = FALSE
    /\ UNCHANGED <<aPc, aStore, aNow, aAccessToken, aUser, aLogin, aDocumentContent, aExporting,
                   aExportResult, aExportReq, aCreated, aHist>>
    /\ UNCHANGED backend

\* the export section shows the 'Presentation created successfully' link
LinkShown == aResult.has /\ aExportResult.has

\* handleExportToSlides up to its await of fetch, from the export button, which
\* is shown for a user beside a preview without link and disabled while
\* exporting; the request carries the form's fields
handleExportToSlides ==
    /\ aPc = "ready"
    /\ aAccessToken # <<>> /\ aUser # "none" /\ aResult.has
    /\ ~LinkShown
    /\ ~aExporting
    /\ aExporting' = TRUE
    /\ aExportResult' = NoExportResult
    /\ aError' = ""
    /\ aExportReq' = [sent |-> TRUE, documentContent |-> aDocumentContent]
    /\ aHist' = [aHist EXCEPT !.exported = [preview |-> aHist.preview,
                                            structure |-> aResult.structure]]
    /\ UNCHANGED <<aPc, aStore, aNow, aAccessToken, aUser, aLogin, aDocumentContent, aLoading,
                   aResult, aPreviewReq, aCreated>>
    /\ UNCHANGED backend

\* POST /api/generate answers and handleExportToSlides goes on: the backend
\* summarizes the request's documentContent anew and passes that structure to
\* createPresentation (created), or fails before doing so
ExportResponds(created, success, structure) ==
    /\ aPc = "ready"
    /\ aExportReq.sent
    /\ success => created
    /\ aExportReq' = NoRequest
    /\ aCreated' = IF created THEN [has |-> TRUE, structure |-> structure] ELSE aCreated
    /\ IF success
       THEN /\ aExportResult' = [has |-> TRUE, slidesUrl |-> slidesUrl(<<"id1">>)]
            /\ aHist' = [aHist EXCEPT !.link = aHist.exported.preview]
            /\ UNCHANGED aError
       ELSE /\ aError' = "Failed to export to Google Slides"
            /\ UNCHANGED <<aExportResult, aHist>>
    /\ aExporting' = FALSE
    /\ UNCHANGED <<aPc, aStore, aNow, aAccessToken, aUser, aLogin, aDocumentContent, aLoading,
                   aResult, aPreviewReq>>
    /\ UNCHANGED backend

----------------------------------------------------------------------------
(* Specifications *)

FetchIdle ==
    /\ fPc = "idle"
    /\ fUrl = CHOOSE u \in Urls : TRUE
    /\ fToken = NoAuth
    /\ fDocId = NoId
    /\ fTitle = <<>>
    /\ fCalls = <<>>
    /\ fResps = <<>>
    /\ fResult = NoResult

SummarizeIdle ==
    /\ genAI = Absent
    /\ sPc = "idle"
    /\ sCaller = "none"
    /\ sParams = NoParams
    /\ sTrace = <<>>
    /\ sPrompt = <<>>
    /\ sText = NoText
    /\ sResult = Pending
    /\ hReq = NoBody
    /\ hResp = NoResponse

GenerateIdle ==
    /\ gPc = "idle"
    /\ gReq = NoGenBody
    /\ gResp = NoGenResponse
    /\ pbParams = NoPbParams
    /\ pbCalls = <<>>
    /\ pbData = NoData
    /\ pbResult = PbPending

ImportIdle ==
    /\ iPc = "idle"
    /\ iReq = NoImportBody
    /\ iResp = NoImportResponse

\* no pure function is under test
CallIdle ==
    /\ cIn = <<>>
    /\ cOut = <<>>
    /\ cDone = FALSE

OthersIdle == CallIdle /\ AppIdle /\ ConcurrentIdle

InitFetch == FetchIdle /\ SummarizeIdle /\ GenerateIdle /\ ImportIdle /\ OthersIdle /\ apiKey = Absent

NextFetch ==
    \/ \E u \in Urls, token \in Tokens : FetchCall(u, token)
    \/ \E status \in Statuses, d \in Documents : PrimaryOk(status, d)
    \/ \E status \in Statuses : PrimaryNotOk(status)
    \/ \E status \in Statuses, name \in Names : MetadataResponse(status, name)
    \/ \E status \in Statuses, text \in Texts : ExportResponse(status, text)
    \/ \E status \in Statuses, html \in BOOLEAN, text \in Texts : PublicResponse(status, html, text)
    \/ FetchRejects

SpecFetch == InitFetch /\ [][NextFetch]_vars

\* the process starts with whatever GEMINI_API_KEY its environment holds
InitSummarize == FetchIdle /\ SummarizeIdle /\ GenerateIdle /\ ImportIdle /\ OthersIdle
                 /\ apiKey \in ApiKeys

NextSummarize ==
    \/ \E params \in Params : SummarizeCall(params)
    \/ \E body \in PreviewBodies : PreviewRequest(body)
    \/ \E response \in Responses : ModelResponds(response)
    \/ ModelRejects

SpecSummarize == InitSummarize /\ [][NextSummarize]_vars

\* the model's answers to a generate request: one JSON text, or nothing
GenerateResponses ==
    {r \in Responses : r.atoms = <<"<json>">> /\ r.payload.title = Absent /\ Len(r.payload.list) <= 1}
    \cup {[atoms |-> <<>>, payload |-> SamplePayload],
          [atoms |-> <<"<json>">>, payload |-> SamplePayload]}

InitGenerate == InitSummarize

NextGenerate ==
    \/ \E body \in GenerateBodies : GenerateRequest(body)
    \/ \E response \in GenerateResponses : ModelResponds(response)
    \/ ModelRejects
    \/ \E data \in PresentationData : CreateResponds(data)
    \/ BatchUpdateResponds
    \/ SlidesApiRejects

SpecGenerate == InitGenerate /\ [][NextGenerate]_vars

\* the preview handler with import mode, in a process with or without a credential
InitImport == FetchIdle /\ SummarizeIdle /\ GenerateIdle /\ ImportIdle /\ OthersIdle
              /\ apiKey \in {Absent, Some(<<"k">>)}

NextImport ==
    \/ \E body \in ImportBodies : ImportPreviewRequest(body)
    \/ \E status \in Statuses, d \in Documents : PrimaryOk(status, d)
    \/ \E status \in Statuses : PrimaryNotOk(status)
    \/ \E status \in Statuses, name \in Names : MetadataResponse(status, name)
    \/ \E status \in Statuses, text \in Texts : ExportResponse(status, text)
    \/ \E status \in Statuses, html \in BOOLEAN, text \in Texts : PublicResponse(status, html, text)
    \/ FetchRejects
    \/ ImportFetched
    \/ \E response \in GenerateResponses : ModelResponds(response)
    \/ ModelRejects

SpecImport == InitImport /\ [][NextImport]_vars

\* the backend services and handlers are all idle, in a process without credential
BackendIdle ==
    FetchIdle /\ SummarizeIdle /\ GenerateIdle /\ ImportIdle /\ ConcurrentIdle /\ apiKey = Absent

\* extractTextFromDocument is applied to a document
ExtractCall ==
    /\ ~cDone
    /\ cOut' = extractTextFromDocument(cIn)
    /\ cDone' = TRUE
    /\ UNCHANGED cIn
    /\ UNCHANGED <<fvars, svars, gvars, ivars, avars, qvars>>

\* the arguments of buildExecutivePrompt: a document text that is empty, plain,
\* or that quotes the heading of the instructions block; a custom prompt that is
\* absent, empty, blank or not
PromptContents == {<<>>, <<"c">>, <<"c", "ADDITIONAL INSTRUCTIONS FROM USER:\n", "d", "\n">>}
PromptCustomPrompts == {Absent, Some(<<>>), Some(<<" ">>), Some(<<"p">>), Some(<<"p", " ", "q">>)}
PromptParams ==
    [content : PromptContents, slideCount : SlideCounts, customPrompt : PromptCustomPrompts]

\* buildExecutivePrompt is applied to its params
PromptCall ==
    /\ ~cDone
    /\ cOut' = buildExecutivePrompt(cIn.content, cIn.slideCount, cIn.customPrompt)
    /\ cDone' = TRUE
    /\ UNCHANGED cIn
    /\ UNCHANGED <<fvars, svars, gvars, ivars, avars, qvars>>

InitPrompt == BackendIdle /\ AppIdle /\ cIn \in PromptParams /\ cOut = <<>> /\ cDone = FALSE

NextPrompt == PromptCall

SpecPrompt == InitPrompt /\ [][NextPrompt]_vars

\* parseGenerateResponse (apps-script): a response body is a text; JSON.parse
\* gives nothing for a text that is not JSON, and else the value the text denotes:
\* null, a number, or an object with some of success, error, slidesUrl, slidesId
BodyText(shape, success, error, url) ==
    [shape |-> shape, success |-> success, error |-> error, slidesUrl |-> url]

ResponseTexts ==
    {BodyText(shape, "absent", Absent, Absent) : shape \in {"not json", "null", "number"}}
    \cup {BodyText("object", success, error, url) :
            success \in {"absent", "false", "true", "1"},
            error \in {Absent, Some(<<>>), Some(<<"msg">>)},
            url \in {Absent, Some(<<"url">>)}}

ResponseCodes == {200, 204, 302, 399, 400, 401, 499, 500, 503}

\* JSON.parse(responseText): throws on a text that is not JSON
JSONParses(responseText) == responseText.shape # "not json"

\* reading a property of the parsed value: a TypeError on null, undefined on a
\* number, the field on an object
PropertyThrows(responseText) == responseText.shape = "null"

GenerateResultFailure(error) ==
    [kind |-> "returned", success |-> FALSE, error |-> error, slidesUrl |-> Absent]
GenerateResultSuccess(url) ==
    [kind |-> "returned", success |-> TRUE, error |-> <<>>, slidesUrl |-> url]
GenerateResultThrown ==
    [kind |-> "TypeError", success |-> FALSE, error |-> <<>>, slidesUrl |-> Absent]

\* the four checks of parseGenerateResponse in their order; result.error and
\* result.success are property reads of the parsed value
parseGenerateResponse(responseCode, responseText) ==
    IF responseCode >= 500
    THEN GenerateResultFailure(<<"Server error (", ToString(responseCode), "). Please try again later.">>)
    ELSE IF ~JSONParses(responseText)
    THEN GenerateResultFailure(<<"Invalid response from server. Please try again.">>)
    ELSE IF PropertyThrows(responseText) THEN GenerateResultThrown
    ELSE IF responseCode >= 400
    THEN GenerateResultFailure(IF Truthy(responseText.error) THEN responseText.error.v
                               ELSE <<"Request failed with status ", ToString(responseCode)>>)
    ELSE IF responseText.success \in {"true", "1"}
    THEN GenerateResultSuccess(responseText.slidesUrl)
    ELSE GenerateResultFailure(IF Truthy(responseText.error) THEN responseText.error.v
                               ELSE <<"Unknown error occurred">>)

\* parseGenerateResponse is applied to a status code and a body
ParseCall ==
    /\ ~cDone
    /\ cOut' = parseGenerateResponse(cIn.responseCode, cIn.responseText)
    /\ cDone' = TRUE
    /\ UNCHANGED cIn
    /\ UNCHANGED <<fvars, svars, gvars, ivars, avars, qvars>>

InitParse ==
    /\ BackendIdle
    /\ AppIdle
    /\ cIn \in [responseCode : ResponseCodes, responseText : ResponseTexts]
    /\ cOut = <<>>
    /\ cDone = FALSE

NextParse == ParseCall

SpecParse == InitParse /\ [][NextParse]_vars

InitExtract == BackendIdle /\ AppIdle /\ cIn \in Documents /\ cOut = <<>> /\ cDone = FALSE

NextExtract == ExtractCall

SpecExtract == InitExtract /\ [][NextExtract]_vars

\* the App's sign-in state over page loads: what localStorage may hold when the
\* page is opened
StoredTokens == {Absent} \cup {Some(t) : t \in AccessTokens}
StoredUsers == {NoStoredUser, CorruptedUser} \cup {JSONstringify(u) : u \in Users}
StoredExpiries ==
    {NoStoredExpiry, CorruptedExpiry} \cup {ExpiryToString(n) : n \in {30000, 150000}}

InitAuth ==
    /\ BackendIdle
    /\ CallIdle
    /\ aPc = "unmounted"
    /\ aStore \in [token : StoredTokens, user : StoredUsers, expiry : StoredExpiries]
    /\ aNow = 0
    /\ FreshState
    /\ aCreated = NoPreview
    /\ aHist = [NoHist EXCEPT !.signInExpiry = IF aStore.expiry.numeric THEN aStore.expiry.v
                                               ELSE 0 - 1]

NextAuth ==
    \/ Mount
    \/ \E validatedUser \in Users \cup {"none"} : RestoreValidated(validatedUser)
    \/ \E token \in AccessTokens, expires_in \in {0, 120} : LoginSuccess(token, expires_in)
    \/ \E userInfo \in Users \cup {"none"} : LoginValidated(userInfo)
    \/ handleLogout
    \/ Reload
    \/ Tick

SpecAuth == InitAuth /\ [][NextAuth]_vars

\* the App's preview and export, from a page opened with empty localStorage
InitApp == BackendIdle /\ CallIdle /\ AppIdle

NextApp ==
    \/ Mount
    \/ \E token \in AccessTokens, expires_in \in {0, 120} : LoginSuccess(token, expires_in)
    \/ \E userInfo \in Users \cup {"none"} : LoginValidated(userInfo)
    \/ handleLogout
    \/ \E content \in AppContents : setDocumentContent(content)
    \/ handleSubmit
    \/ \E success \in BOOLEAN, structure \in AppStructures : PreviewResponds(success, structure)
    \/ handleExportToSlides
    \/ \E created, success \in BOOLEAN, structure \in AppStructures :
          ExportResponds(created, success, structure)

SpecApp == InitApp /\ [][NextApp]_vars

\* two requests side by side, under each configuration of the key
InitConcurrent ==
    /\ FetchIdle /\ SummarizeIdle /\ GenerateIdle /\ ImportIdle
    /\ CallIdle /\ AppIdle /\ ConcurrentIdle
    /\ apiKey \in ApiKeys

NextConcurrent ==
    \/ \E id \in RequestIds, caller \in Callers, params \in ConcurrentParams :
          ConcurrentSummarize(id, caller, params)
    \/ \E id \in RequestIds, response \in ConcurrentResponses : ConcurrentModelResponds(id, response)
    \/ \E id \in RequestIds : ConcurrentModelRejects(id)

SpecConcurrent == InitConcurrent /\ [][NextConcurrent]_vars

Init == InitFetch \/ InitSummarize \/ InitImport \/ InitExtract \/ InitPrompt \/ InitParse
        \/ InitAuth \/ InitApp \/ InitConcurrent

Next == NextFetch \/ NextSummarize \/ NextGenerate \/ NextImport \/ NextExtract \/ NextPrompt
        \/ NextParse \/ NextAuth \/ NextApp \/ NextConcurrent

Spec == Init /\ [][Next]_vars

----------------------------------------------------------------------------
(* Claims about fetchGoogleDocsContent, checked under SpecFetch *)

AuthFailure == {401, 403}

\* every awaited call so far got an HTTP response, and the promise has settled
Settled == fPc = "done" /\ fResult.kind # "Error"

Endpoints == [i \in 1..Len(fCalls) |-> fCalls[i].endpoint]

\* C1: primary 401/403, metadata ok, export ok: the result is the metadata name
\* (the sentinel "Untitled Document" when the metadata carries no name) and the
\* trimmed export text, after exactly the calls primary, metadata, export, each for
\* the extracted document id and each with the caller's bearer token.
C1_FallbackSucceeds ==
    (/\ fPc = "done"
     /\ Len(fResps) = 3
     /\ fResps[1].status \in AuthFailure
     /\ Ok(fResps[2].status)
     /\ Ok(fResps[3].status))
    => /\ fResult.kind = "ok"
       /\ fResult.title = (IF Truthy(fResps[2].body) THEN fResps[2].body.v ELSE UntitledDocument)
       /\ fResult.content = Trim(fResps[3].body)
       /\ Endpoints = <<"primary", "metadata", "export">>
       /\ \A i \in 1..3 : fCalls[i].auth = fToken /\ fCalls[i].id = fDocId

C1_Witness ==
    /\ fPc = "done"
    /\ fResps = <<Resp(403, Absent), Resp(200, Some(<<"N">>)), Resp(200, <<" ", "a", "\n">>)>>
    /\ fResult = Resolved(<<"N">>, <<"a">>)
    /\ Len(fCalls) = 3
    /\ fToken = "tokB"

\* C2: primary 401/403, then the metadata call fails: the fetch fails with a
\* DocsError decided by the metadata status (DOCUMENT_NOT_FOUND on 404, else
\* ACCESS_DENIED; httpStatus 403 when the metadata status is 403).
C2_MetadataStatusDecides ==
    (/\ Settled
     /\ Len(fResps) >= 2
     /\ fResps[1].status \in AuthFailure
     /\ ~Ok(fResps[2].status))
    => /\ fResult.kind = "DocsError"
       /\ fResult.code = (IF fResps[2].status = 404 THEN "DOCUMENT_NOT_FOUND" ELSE "ACCESS_DENIED")
       /\ (fResps[2].status = 403 => fResult.httpStatus = 403)

\* C3: primary 401/403, metadata ok, export fails: DocsError ACCESS_DENIED, 403.
C3_ExportFailureDenied ==
    (/\ Settled
     /\ Len(fResps) >= 3
     /\ fResps[1].status \in AuthFailure
     /\ Ok(fResps[2].status)
     /\ ~Ok(fResps[3].status))
    => fResult = DocsError("ACCESS_DENIED", 403)

\* C4: at most three requests (primary, metadata, export), each endpoint at most
\* once, and no request after a failed metadata or export call.
C4_NoRetryBeyondFallback ==
    /\ Len(fCalls) <= 3
    /\ \A i \in 1..Len(fCalls) : fCalls[i].endpoint \in {"primary", "metadata", "export"}
    /\ \A i, j \in 1..Len(fCalls) : fCalls[i].endpoint = fCalls[j].endpoint => i = j
    /\ \A k \in 2..Len(fResps) : ~Ok(fResps[k].status) => Len(fCalls) = k

\* C5: the secondary path is entered only on a primary 401/403; any other
\* non-success primary status fails at once, with no further call:
\* DOCUMENT_NOT_FOUND/400 on 404, else ACCESS_DENIED with the original status.
C5_OtherPrimaryFailureFailsAtOnce ==
    /\ Len(fCalls) >= 2 => fResps[1].status \in AuthFailure
    /\ (/\ Len(fResps) >= 1
        /\ ~Ok(fResps[1].status)
        /\ fResps[1].status \notin AuthFailure)
       => /\ fPc = "done"
          /\ Len(fCalls) = 1
          /\ fResult.kind = "DocsError"
          /\ fResps[1].status = 404 =>
                (fResult.code = "DOCUMENT_NOT_FOUND" /\ fResult.httpStatus = 400)
          /\ fResps[1].status # 404 =>
                (fResult.code = "ACCESS_DENIED" /\ fResult.httpStatus = fResps[1].status)

C5_Witness ==
    /\ fPc = "done"
    /\ fResps = <<Resp(500, Absent)>>
    /\ fResult = DocsError("ACCESS_DENIED", 500)
    /\ Len(fCalls) = 1

\* C6: a URL whose host is not the Google Docs host, or whose path is another
\* Workspace product, fails with INVALID_URL (400) and causes no HTTP call.
C6_NonDocsUrlRejected ==
    (/\ fPc # "idle"
     /\ (fUrl.host # DocsHost \/ fUrl.path # DocumentPath))
    => /\ fResult = DocsError("INVALID_URL", 400)
       /\ fCalls = <<>>

----------------------------------------------------------------------------
(* Claims about summarizeDocument and the preview handler, checked under   *)
(* SpecSummarize                                                           *)

\* summarizeDocument was called and its promise has settled
Summarized == sPc = "done" /\ sCaller # "none"

\* GEMINI_API_KEY is unset, empty or made of whitespace only
NoCredential == ~apiKey.has \/ \A i \in 1..Len(apiKey.v) : apiKey.v[i] \in WsChars

\* C7: the structure summarizeDocument returns has exactly slideCount slides, for
\* every slideCount of the contract's range [3,10], in the LLM path and in mock mode.
C7_SlideCountRespected ==
    (Summarized /\ sResult.kind = "ok" /\ sParams.slideCount \in 3..10)
    => Len(sResult.structure.slides) = sParams.slideCount

\* C8: the title of the returned structure is the caller-supplied title, whatever
\* the model sent (its own title field included) and in mock mode; through the
\* preview handler it is the request's documentTitle.
C8_TitleIsCallerSupplied ==
    (Summarized /\ sResult.kind = "ok")
    => /\ sResult.structure.title = sParams.title
       /\ sCaller = "preview" =>
            /\ hResp.structure.title = hReq.documentTitle.v
            /\ sParams.title = hReq.documentTitle.v

C8_Witness ==
    /\ Summarized
    /\ ~NoCredential
    /\ Truthy(sText.payload.title)
    /\ sText.payload.title.v # sParams.title
    /\ sResult.kind = "ok"
    /\ sResult.structure.title = <<"T">>
    /\ Len(sResult.structure.slides) = 2

\* C9: with no credential, summarizeDocument returns without building a prompt,
\* creating the LLM client or calling generateContent.
C9_MockNeverCallsOut ==
    (sCaller # "none" /\ NoCredential)
    => /\ sPc = "done"
       /\ sResult.kind = "ok"
       /\ sTrace = <<>>
       /\ sPrompt = <<>>
       /\ genAI = Absent

C9_Witness ==
    /\ apiKey = Some(<<" ", " ">>)
    /\ sCaller = "direct"
    /\ sPc = "done"
    /\ sResult.kind = "ok"
    /\ sTrace = <<>>

\* C10: in mock mode summarizeDocument(title, n) returns exactly n slides, slide i
\* (0-based) with title sampleTitles[i mod 10] and bullets sampleBullets[i mod 5];
\* a valid preview request then answers success: true with slideCount slides.
C10_MockSlidesCycle ==
    (sCaller # "none" /\ NoCredential)
    => /\ sResult.kind = "ok"
       /\ sResult.structure.title = sParams.title
       /\ Len(sResult.structure.slides) = sParams.slideCount
       /\ \A i \in 0..(sParams.slideCount - 1) :
            /\ sResult.structure.slides[i + 1].title = sampleTitles[(i % 10) + 1]
            /\ sResult.structure.slides[i + 1].bullets = sampleBullets[(i % 5) + 1]
       /\ sCaller = "preview" =>
            /\ hResp.status = 200
            /\ hResp.success = "true"
            /\ hResp.structure = sResult.structure
            /\ Len(hResp.structure.slides) = hReq.slideCount.v

C10_Witness ==
    /\ NoCredential
    /\ sCaller = "preview"
    /\ Truthy(hReq.documentContent)
    /\ hReq.slideCount = [has |-> TRUE, v |-> 5]
    /\ hResp.success = "true"
    /\ Len(hResp.structure.slides) = 5
    /\ hResp.structure.slides[5].title = <<"Strategic Initiatives">>

\* the model answered and summarizeDocument ran to its end on that answer
Answered == Summarized /\ ~NoCredential /\ sResult.message # "generateContent failed"

\* a string made of whitespace only (the empty string included)
Blank(str) == \A i \in 1..Len(str) : str[i] \in WsChars

\* the bullets of the returned structure, as <<slide, position>> pairs
ReturnedBullets ==
    UNION {{<<i, j>> : j \in 1..Len(sResult.structure.slides[i].bullets)} :
             i \in 1..Len(sResult.structure.slides)}

Bullet(ij) == sResult.structure.slides[ij[1]].bullets[ij[2]]

\* C11 as stated: every returned bullet is a string with at least one character
\* and no leading or trailing whitespace.
C11_BulletsTrimmed ==
    (Summarized /\ sResult.kind = "ok")
    => \A ij \in ReturnedBullets :
         /\ Bullet(ij).t = "str"
         /\ Bullet(ij).v # <<>>
         /\ Bullet(ij).v[1] \notin WsChars
         /\ Bullet(ij).v[Len(Bullet(ij).v)] \notin WsChars

\* C11 amended: every returned bullet is a string with at least one
\* non-whitespace character; it is returned as the model sent it, with whatever
\* leading or trailing whitespace it had.
C11_BulletsNonBlank ==
    (Summarized /\ sResult.kind = "ok")
    => \A ij \in ReturnedBullets :
         /\ Bullet(ij).t = "str"
         /\ ~Blank(Bullet(ij).v)
         /\ Answered =>
              Bullet(ij) \in {sText.payload.list[ij[1]].bullets.v[k] :
                                k \in 1..Len(sText.payload.list[ij[1]].bullets.v)}

C11_Witness ==
    /\ Answered
    /\ sResult.kind = "ok"
    /\ Len(sResult.structure.slides) = 2
    /\ sResult.structure.slides[2].bullets = <<Str(<<" ", "a", " ">>)>>

\* the positions of the entries of bs that are strings and not blank
KeptPositions(bs) == {j \in 1..Len(bs) : bs[j].t = "str" /\ ~Blank(bs[j].v)}

\* the k-th smallest member of a set of positions
Nth(positions, k) == CHOOSE j \in positions : Cardinality({m \in positions : m <= j}) = k

\* C12: slide by slide, the returned bullets are the model's entries that are
\* strings and not blank after trimming, all of them and in their original
\* order; the slides keep their number, order and titles.
C12_FilterKeepsOrder ==
    (Answered /\ sResult.kind = "ok")
    => /\ Len(sResult.structure.slides) = Len(sText.payload.list)
       /\ \A i \in 1..Len(sText.payload.list) :
            LET sent == sText.payload.list[i].bullets.v
                got == sResult.structure.slides[i].bullets
            IN  /\ sResult.structure.slides[i].title = sText.payload.list[i].title.v
                /\ Len(got) = Cardinality(KeptPositions(sent))
                /\ \A k \in 1..Len(got) : got[k] = sent[Nth(KeptPositions(sent), k)]

C12_Witness ==
    /\ Answered
    /\ Len(sText.payload.list) = 2
    /\ sText.payload.list[2].bullets.v = <<Str(<<"a">>), Str(<<>>), Str(<<" ", " ">>), Str(<<"b">>)>>
    /\ sText.payload.list[1].title.v = <<"Q">>
    /\ sResult.kind = "ok"
    /\ sResult.structure.slides[1].title = <<"Q">>
    /\ sResult.structure.slides[2].bullets = <<Str(<<"a">>), Str(<<"b">>)>>

\* C13: the model's JSON text wrapped in an opening fence (with or without the
\* json tag) and a closing fence gives what the same JSON text gives unwrapped:
\* the same structure, or the same failure.
C13_FencedParsesAsBare ==
    \A open \in {FenceJson, Fence} :
        (Answered /\ sText.atoms = Fenced(open, <<"<json>">>))
        => sResult = Validate(sParams.title, [atoms |-> <<"<json>">>, payload |-> sText.payload])

C13_Witness ==
    /\ Answered
    /\ sText.atoms = Fenced(Fence, <<"<json>">>)
    /\ Len(sText.payload.list) = 2
    /\ sResult.kind = "ok"
    /\ Len(sResult.structure.slides) = 2
    /\ sResult.structure.slides[1].bullets = <<Str(<<"a">>), Str(<<"b">>)>>

\* the slides of the model's array that fail the per-slide validation
Offending == {i \in 1..Len(sText.payload.list) :
                \/ ~sText.payload.list[i].title.has
                \/ sText.payload.list[i].title.v = <<>>
                \/ ~sText.payload.list[i].bullets.has}

\* the model's text holds no JSON text, or holds something else besides it
NotJson ==
    \/ \A i \in 1..Len(sText.atoms) : sText.atoms[i] # "<json>"
    \/ \E i \in 1..Len(sText.atoms) : sText.atoms[i] = "junk"

\* the model's text is one JSON text, bare, padded or fenced, denoting an object
\* with a slides array
WellFormed ==
    /\ ~NotJson
    /\ sText.payload.top = "object"
    /\ sText.payload.slides = "array"

\* C14: a structure is returned only when the whole response validated; an empty
\* response, text that is not JSON, a missing or non-array slides field are
\* fatal; a slide with a falsy title or non-array bullets makes the call fail
\* with the (0-based) index of the first such slide.
C14_AllOrNothing ==
    Answered =>
        /\ sResult.kind \in {"ok", "Error"}
        /\ sResult.kind = "ok" <=> (WellFormed /\ Offending = {})
        /\ sResult.kind = "Error" => sResult.structure = NoStructure
        /\ sText.atoms = <<>> => sResult.message = "No response from Gemini"
        /\ (sText.atoms # <<>> /\ NotJson)
             => sResult.message = "Failed to parse Gemini response as JSON"
        /\ (~NotJson /\ sText.payload.top = "object" /\ sText.payload.slides # "array")
             => sResult.message = "Invalid response structure: missing slides array"
        /\ (WellFormed /\ Offending # {})
             => /\ sResult.message = "Invalid slide structure at index"
                /\ sResult.index + 1 \in Offending
                /\ \A i \in Offending : sResult.index + 1 <= i

C14_Witness ==
    /\ Answered
    /\ WellFormed
    /\ Offending = {2}
    /\ sResult = Thrown("Invalid slide structure at index", 1)
    /\ sCaller = "preview"
    /\ hResp = Failure(500, "Invalid slide structure at index")

----------------------------------------------------------------------------
(* Claims about the generate handler and createPresentation, checked under *)
(* SpecGenerate                                                            *)

\* the handler has answered
Answers == gPc = "done"

\* documentContent, documentTitle and slideCount are present and truthy
RequiredFields ==
    Truthy(gReq.documentContent) /\ Truthy(gReq.documentTitle) /\ TruthyNum(gReq.slideCount)

MissingAuthentication == "Missing authentication: accessToken and userEmail required"

\* C15 as stated: a generate request whose accessToken or userEmail is absent is
\* answered 401, success: false, with the message naming accessToken and userEmail.
C15_MissingAuthIs401 ==
    (Answers /\ (~gReq.accessToken.has \/ ~gReq.userEmail.has))
    => gResp = GenFailure(401, MissingAuthentication)

\* C15 amended: a generate request whose documentContent, documentTitle and
\* slideCount are present (truthy) and whose accessToken or userEmail is absent
\* or empty is answered 401, success: false, with the message naming
\* accessToken and userEmail, before the summarizer or the Slides API is
\* called; no other generate request is answered 401.
C15_MissingAuthAfterRequiredFields ==
    /\ (gPc # "idle" /\ RequiredFields
          /\ (~Truthy(gReq.accessToken) \/ ~Truthy(gReq.userEmail)))
       => /\ gResp = GenFailure(401, MissingAuthentication)
          /\ sCaller = "none"
          /\ pbCalls = <<>>
    /\ gResp.status = 401
       => (RequiredFields /\ (~Truthy(gReq.accessToken) \/ ~Truthy(gReq.userEmail)))

C15_Witness ==
    /\ Answers
    /\ RequiredFields
    /\ gReq.slideCount.v = 5
    /\ gReq.accessToken = Some(<<"tok">>)
    /\ gReq.userEmail = Absent
    /\ gResp.status = 401

\* every field but slideCount is valid
OtherFieldsValid ==
    /\ Truthy(gReq.documentContent) /\ Truthy(gReq.documentTitle)
    /\ Truthy(gReq.accessToken) /\ Truthy(gReq.userEmail)
    /\ ~TemplateRejected(gReq.template)

\* C16: the generate handler calls the summarizer only with a slideCount in
\* 3..10; with all other fields valid a slideCount below 3 or above 10 is
\* answered 400 'slideCount must be between 3 and 10', and 3 and 10 pass the
\* validation.
C16_SlideCountRange ==
    /\ sCaller = "generate" => gReq.slideCount.v \in 3..10
    /\ (gPc # "idle" /\ OtherFieldsValid /\ gReq.slideCount.has)
       => IF gReq.slideCount.v < 3 \/ gReq.slideCount.v > 10
          THEN gResp = GenFailure(400, "slideCount must be between 3 and 10")
          ELSE sCaller = "generate" /\ gResp.status \notin {400, 401}

\* C17: an otherwise valid generate request with a template outside the five
\* ids is answered 400 with the 'Invalid template' error and no Slides API call
\* is made; with no template the batch is the one built from the modern
\* template.
C17_InvalidTemplateIs400 ==
    /\ (Answers /\ RequiredFields /\ Truthy(gReq.accessToken) /\ Truthy(gReq.userEmail)
          /\ gReq.slideCount.v \in 3..10
          /\ Truthy(gReq.template) /\ gReq.template.v \notin validTemplates)
       => /\ gResp.status = 400
          /\ gResp.error = "Invalid template. Must be one of: modern, corporate, creative, minimal, executive"
          /\ pbCalls = <<>>
    /\ (Len(pbCalls) = 2 /\ ~gReq.template.has)
       => pbCalls[2].requests
            = BuildRequests(pbParams.structure, pbData, SLIDE_TEMPLATES[<<"modern">>])

\* C19: every non-success response of the preview and generate handlers has the
\* body { success: false, error } and a status among 400, 401, 500; a failure
\* of the summarizer or of the presentation builder is answered 500.
C19_FailureShape ==
    /\ hResp.status \notin {0, 200}
       => hResp.success = "false" /\ hResp.status \in {400, 401, 500}
    /\ gResp.status \notin {0, 200}
       => gResp.success = "false" /\ gResp.status \in {400, 401, 500}
    /\ (sCaller = "preview" /\ sResult.kind = "Error") => hResp.status = 500
    /\ (sCaller = "generate" /\ sResult.kind = "Error") => gResp.status = 500
    /\ pbResult.kind = "Error" => gResp.status = 500

\* the number of requests of a kind in a batch
CountKind(requests, kind) == Cardinality({k \in 1..Len(requests) : requests[k].kind = kind})

\* C20: createPresentation issues presentations.create once, first, and then at
\* most one batchUpdate, which carries the whole requests array (the title-slide
\* requests and those of every content slide); when create returns no
\* presentationId it throws 'Failed to create presentation', issues no
\* batchUpdate and returns no URL.
C20_OneCreateThenOneBatch ==
    /\ Len(pbCalls) <= 2
    /\ pbParams # NoPbParams <=> Len(pbCalls) >= 1
    /\ Len(pbCalls) >= 1
       => /\ pbCalls[1].api = "presentations.create"
          /\ pbCalls[1].title = pbParams.structure.title
    /\ Len(pbCalls) = 2
       => /\ pbCalls[2].api = "presentations.batchUpdate"
          /\ pbData.received /\ Truthy(pbData.presentationId)
          /\ pbCalls[2].presentationId = pbData.presentationId.v
          /\ pbCalls[2].requests
               = BuildRequests(pbParams.structure, pbData, getTemplateConfig(pbParams.template))
          /\ CountKind(pbCalls[2].requests, "createSlide") = Len(pbParams.structure.slides)
          /\ CountKind(pbCalls[2].requests, "createParagraphBullets") = Len(pbParams.structure.slides)
          /\ Len(pbCalls[2].requests) >= 9 * Len(pbParams.structure.slides)
    /\ (pbData.received /\ ~Truthy(pbData.presentationId))
       => /\ pbResult = PbThrown("Failed to create presentation")
          /\ Len(pbCalls) = 1
          /\ gResp = GenFailure(500, "Failed to create presentation")
    /\ pbResult.kind = "ok"
       => /\ Truthy(pbData.presentationId)
          /\ pbResult.slidesId = pbData.presentationId.v
          /\ (Len(pbCalls) = 1 =>
                BuildRequests(pbParams.structure, pbData, getTemplateConfig(pbParams.template)) = <<>>)

C20_Witness ==
    /\ Answers
    /\ Len(pbCalls) = 2
    /\ Len(pbParams.structure.slides) = 3
    /\ Len(pbCalls[2].requests) = 30
    /\ pbCalls[2].requests[4].kind = "createSlide"
    /\ pbResult.kind = "ok"
    /\ gResp.status = 200
    /\ gResp.slidesUrl = <<"https://docs.google.com/presentation/d/", "id1", "/edit">>

----------------------------------------------------------------------------
(* Claims about the preview handler with import mode, checked under        *)
(* SpecImport                                                              *)

\* nothing downstream of the handler has been started
NothingStarted == fPc = "idle" /\ fCalls = <<>> /\ sCaller = "none" /\ sTrace = <<>>

----------------------------------------------------------------------------
(* Claims about extractTextFromDocument, checked under SpecExtract         *)

\* the fragment that element j of structural element i of the document
\* contributes: its textRun.content, or nothing when anything on the way to it
\* is missing
Fragment(d, i, j) ==
    IF /\ d.body /\ d.content.has /\ i <= Len(d.content.v)
       /\ d.content.v[i].paragraph /\ d.content.v[i].elements.has
       /\ j <= Len(d.content.v[i].elements.v)
       /\ d.content.v[i].elements.v[j].textRun
       /\ d.content.v[i].elements.v[j].content.has
    THEN d.content.v[i].elements.v[j].content.v
    ELSE <<>>

\* the fragments from position <<i, j>> on, in document order, end to end
RECURSIVE FragmentsFrom(_, _, _)
FragmentsFrom(d, i, j) ==
    IF ~(d.body /\ d.content.has) \/ i > Len(d.content.v) THEN <<>>
    ELSE IF j > MaxElems THEN FragmentsFrom(d, i + 1, 1)
    ELSE Fragment(d, i, j) \o FragmentsFrom(d, i, j + 1)

\* out is raw without its leading and trailing whitespace
IsTrimOf(out, raw) ==
    \E lo \in 0..Len(raw) :
        /\ lo + Len(out) <= Len(raw)
        /\ out = SubSeq(raw, lo + 1, lo + Len(out))
        /\ \A k \in 1..lo : raw[k] \in WsChars
        /\ \A k \in (lo + Len(out) + 1)..Len(raw) : raw[k] \in WsChars
        /\ out # <<>> => (out[1] \notin WsChars /\ out[Len(out)] \notin WsChars)

\* C22: extractTextFromDocument returns every textRun.content of every
\* paragraph element, in document order, end to end with nothing added, trimmed
\* at both ends; whatever is missing contributes nothing, and a document with
\* no body gives the empty string.
C22_ExtractConcatenatesAndTrims ==
    cDone =>
        /\ IsTrimOf(cOut, FragmentsFrom(cIn, 1, 1))
        /\ ~cIn.body => cOut = <<>>

C22_Witness ==
    /\ cDone
    /\ cIn.body
    /\ Len(cIn.content.v) = 2
    /\ Len(cIn.content.v[1].elements.v) = 2
    /\ ~cIn.content.v[1].elements.v[1].textRun
    /\ cIn.content.v[1].elements.v[2].content = Some(<<" ", "a">>)
    /\ cOut = <<"a", " ", "a">>

----------------------------------------------------------------------------
(* Claims about buildExecutivePrompt, checked under SpecPrompt             *)

Heading == "ADDITIONAL INSTRUCTIONS FROM USER:\n"

\* the positions of the heading in a text
HeadingAt(text) == {k \in 1..Len(text) : text[k] = Heading}

\* the text holds the heading with str right after it
HeadingThen(text, str) ==
    \E k \in HeadingAt(text) :
        k + Len(str) <= Len(text) /\ SubSeq(text, k + 1, k + Len(str)) = str

----------------------------------------------------------------------------
(* Claims about the batch of createPresentation, checked under SpecGenerate *)

ObjectId(prefix, i) == <<prefix, ToString(i)>>

\* the positions in the batch of the requests of a kind on an object
Positions(requests, kind, objectId) ==
    {k \in 1..Len(requests) : requests[k].kind = kind /\ requests[k].objectId = objectId}

\* request k names slide i, its title or its body, as its target or as its page
References(requests, k, i) ==
    \/ requests[k].objectId \in {ObjectId("slide_", i), ObjectId("title_", i), ObjectId("body_", i)}
    \/ requests[k].kind = "createShape" /\ requests[k].ids = <<ObjectId("slide_", i)>>

\* the first n bullets, each followed by a newline except the last
RECURSIVE JoinedUpTo(_, _)
JoinedUpTo(bullets, n) ==
    IF n = 0 THEN <<>>
    ELSE IF n = 1 THEN bullets[1].v
    ELSE JoinedUpTo(bullets, n - 1) \o <<"\n">> \o bullets[n].v

\* C24: in the batch built by createPresentation, for each index i the
\* createSlide request for structure.slides[i] uses insertionIndex i + 1 and the
\* object ids slide_i / title_i / body_i, pairwise distinct across slides, and
\* precedes every request that references those ids; the createSlide requests
\* come in input order, and the body text is the slide's bullets joined by
\* newlines, inserted before the bullet-list formatting request on that body.
C24_SlidesInInputOrder ==
    Len(pbCalls) = 2 =>
        LET requests == pbCalls[2].requests
            slides == pbParams.structure.slides
            created(i) == Positions(requests, "createSlide", ObjectId("slide_", i))
            inserted(i) == Positions(requests, "insertText", ObjectId("body_", i))
            bulleted(i) == Positions(requests, "createParagraphBullets", ObjectId("body_", i))
        IN  /\ \A i \in 0..(Len(slides) - 1) :
                /\ Cardinality(created(i)) = 1
                /\ Cardinality(inserted(i)) = 1
                /\ Cardinality(bulleted(i)) = 1
                /\ \A c \in created(i) :
                      /\ requests[c].at = i + 1
                      /\ requests[c].ids = <<ObjectId("title_", i), ObjectId("body_", i)>>
                      /\ \A k \in 1..Len(requests) : References(requests, k, i) => c <= k
                      /\ \A h \in 0..(i - 1) : \A b \in created(h) : b < c
                /\ \A t \in inserted(i) :
                      /\ requests[t].text = JoinedUpTo(slides[i + 1].bullets, Len(slides[i + 1].bullets))
                      /\ requests[t].at = 0
                      /\ \A b \in bulleted(i) : t < b
            /\ \A i, h \in 0..(Len(slides) - 1) :
                  i # h =>
                    {ObjectId("slide_", i), ObjectId("title_", i), ObjectId("body_", i)}
                    \cap {ObjectId("slide_", h), ObjectId("title_", h), ObjectId("body_", h)} = {}
            /\ \A k \in 1..Len(requests) :
                  requests[k].kind = "createSlide"
                  => \E i \in 0..(Len(slides) - 1) : k \in created(i)

C24_Witness ==
    /\ Len(pbCalls) = 2
    /\ Len(pbParams.structure.slides) = 3
    /\ Truthy(pbData.titleSlideId)
    /\ \E k \in 1..Len(pbCalls[2].requests) :
          /\ pbCalls[2].requests[k].kind = "createSlide"
          /\ pbCalls[2].requests[k].objectId = <<"slide_", "2">>
          /\ pbCalls[2].requests[k].at = 3
    /\ \E k \in 1..Len(pbCalls[2].requests) :
          /\ pbCalls[2].requests[k].kind = "insertText"
          /\ pbCalls[2].requests[k].objectId = <<"body_", "1">>
          /\ \E n \in 1..Len(pbCalls[2].requests[k].text) : pbCalls[2].requests[k].text[n] = "\n"

\* C27: a generate request answered with a validation status (400 or 401) has
\* caused no call to the Summarizer and no call to the Presentation Builder:
\* all validation, the template check included, completes before the first
\* external call.
C27_ValidationBeforeExternalCalls ==
    (Answers /\ gResp.status \in {400, 401})
    => /\ sCaller = "none"
       /\ sTrace = <<>>
       /\ pbParams = NoPbParams
       /\ pbCalls = <<>>

----------------------------------------------------------------------------
(* Claims about parseGenerateResponse, checked under SpecParse             *)

\* the body's error when it has a truthy one, and else the fallback
ErrorOr(responseText, fallback) ==
    IF responseText.shape = "object" /\ responseText.error.has /\ responseText.error.v # <<>>
    THEN responseText.error.v
    ELSE fallback

\* C25: parseGenerateResponse(code, body) reports success: true only when
\* code < 400, body parses as JSON and the parsed success field is truthy; code
\* >= 500 yields 'Server error (<code>)' whatever the body, otherwise an
\* unparseable body yields 'Invalid response', otherwise code >= 400 yields the
\* body's error or 'Request failed with status <code>', otherwise a body with
\* success false yields its error or 'Unknown error occurred'.
C25_ParsePrecedence ==
    cDone =>
        LET code == cIn.responseCode
            body == cIn.responseText
            parses == body.shape # "not json"
            succeeded == body.shape = "object" /\ body.success \in {"true", "1"}
        IN  /\ (cOut.kind = "returned" /\ cOut.success) <=> (code < 400 /\ parses /\ succeeded)
            /\ code >= 500
               => cOut = GenerateResultFailure(
                            <<"Server error (", ToString(code), "). Please try again later.">>)
            /\ (code < 500 /\ ~parses)
               => cOut = GenerateResultFailure(<<"Invalid response from server. Please try again.">>)
            /\ (code < 500 /\ parses /\ code >= 400)
               => cOut = GenerateResultFailure(
                            ErrorOr(body, <<"Request failed with status ", ToString(code)>>))
            /\ (code < 400 /\ parses /\ ~succeeded)
               => cOut = GenerateResultFailure(ErrorOr(body, <<"Unknown error occurred">>))

----------------------------------------------------------------------------
(* Claims about the persisted session, checked under SpecAuth              *)

\* restoreAuth has run to its end and nothing has happened since
MountDone == aPc = "ready" /\ aHist.last \in {"mount", "restored", "rejected"}

AllThreeKeys(store) == Truthy(store.token) /\ store.user.has /\ store.expiry.has

\* the stored expiry is a time, and the time of the mount is not later than it
\* minus 60 seconds
NotYetExpired(store, now) ==
    store.expiry.has /\ store.expiry.numeric /\ now <= store.expiry.v - 60 * 1000

\* the stored expiry is a time that has passed, less 60 seconds
StoredTokenExpired(store, now) ==
    Truthy(store.token) /\ store.expiry.has /\ store.expiry.numeric
    /\ now > store.expiry.v - 60 * 1000

\* C26: a persisted session is restored on mount only if all three keys are
\* present, the user JSON parses, the current time is not later than the stored
\* expiry minus 60 seconds, and the token validates; when the stored token is
\* expired, the stored user JSON is corrupted or validation fails, and whenever
\* the user signs out, all three keys are removed and the app is signed out.
C26_RestoreOnlyValidSession ==
    /\ (MountDone /\ aUser # "none")
       => /\ aHist.last = "restored"
          /\ AllThreeKeys(aHist.found)
          /\ aHist.found.user.valid
          /\ NotYetExpired(aHist.found, aHist.foundAt)
    /\ (MountDone /\ \/ StoredTokenExpired(aHist.found, aHist.foundAt)
                     \/ (aHist.found.user.has /\ ~aHist.found.user.valid)
                     \/ aHist.last = "rejected")
       => aStore = clearAuthFromStorage /\ aUser = "none" /\ aAccessToken = <<>>
    /\ aHist.last = "logout"
       => aStore = clearAuthFromStorage /\ aUser = "none" /\ aAccessToken = <<>>

\* C29: the expiry stored for a persisted access token is never later than the
\* expiry fixed at sign-in (sign-in time + expires_in); restoring the session
\* on mount leaves it unchanged.
C29_ExpiryNeverExtended ==
    (aStore.expiry.has /\ aStore.expiry.numeric /\ aHist.signInExpiry >= 0)
    => aStore.expiry.v <= aHist.signInExpiry

----------------------------------------------------------------------------
(* Claims about preview and export in the App, checked under SpecApp       *)

\* C28: what is exported is what was previewed: the structure passed to
\* createPresentation for an export equals the structure of the preview that
\* was on display when the export was requested.
C28_ExportedIsPreviewed ==
    aCreated.has => aCreated.structure = aHist.exported.structure

\* C30: the 'Presentation created successfully' link belongs to the preview on
\* display: after a later 'Generate Slides' submit, exportResult is null until
\* the new preview is itself exported.
C30_LinkForDisplayedPreview ==
    aExportResult.has => aHist.link = aHist.preview

----------------------------------------------------------------------------
(* Claims about requests handled side by side, checked under SpecConcurrent *)

\* the key the process is configured with
ConfiguredKey == IF apiKey.has THEN apiKey.v ELSE <<>>

====
